---- MODULE Spec2Model ----
(***************************************************************************)
(* A model of the transform-tree core of foxglove-studio-threedee and of   *)
(* the Renderer operations that drive it.                                  *)
(*                                                                         *)
(* TransformTree (src/src/transforms/TransformTree.ts) and                 *)
(* Renderer.addTransformMessage (src/src/Renderer.ts) are translated from  *)
(* their source.  CoordinateFrame and Transform are imported by that code  *)
(* but their files are not part of the available sources; they are         *)
(* modelled from sections 4.1 and 4.2 of the design document and are       *)
(* marked as such below.                                                   *)
(*                                                                         *)
(* Objects are modelled with identity: `objs` is the heap of               *)
(* CoordinateFrame objects, a reference is an index into it, and the       *)
(* Map `_frames` is a sequence of key/value entries in insertion order     *)
(* (the order a JavaScript Map iterates in).                               *)
(***************************************************************************)
EXTENDS Integers, Sequences, FiniteSets, TLC

VARIABLES
    frames,                      \* TransformTree._frames: Seq of [key, value]
    objs,                        \* heap of CoordinateFrame objects
    coordinateFrameRenderables,  \* Renderer.coordinateFrameRenderables (keys)
    emitted,                     \* number of transformTreeUpdated events emitted
    seen,                        \* history: frame ids named by addTransform calls
    call,                        \* the operation in progress, or NoCall
    clone,                       \* a TransformTree made by TransformTree.Clone, or NoClone
    snapshot,                    \* history: the tree as it was when clone was made
    panel,                       \* ThreeDeePanel: its hooks and queued updates
    pending,                     \* the effects of its last commit that have not run
    host,                        \* the extension context, with the history of its calls
    materials,                   \* MaterialCache.materials: Seq of [key, value]
    cacheLog,                    \* history of the create, dispose, acquire and release calls
    markers,                     \* the Markers object, its renderables and the mesh cache
    loads,                       \* the gltfLoader.loadAsync promises not yet settled
    markerLog,                   \* history of the marker messages and of startFrame
    startClientPos,              \* Input.startClientPos: a Vector2, or undefined
    cursorCoords,                \* Input.cursorCoords
    inputLog                     \* history of the events Input received and emitted

\* the Renderer, its transform tree and the panel
core == <<frames, objs, coordinateFrameRenderables, emitted, seen, call, clone, snapshot,
          panel, pending, host>>

cacheVars == <<materials, cacheLog>>

markerVars == <<markers, loads, markerLog>>

inputVars == <<startClientPos, cursorCoords, inputLog>>

\* the components modelled on their own
components == <<cacheVars, markerVars, inputVars>>

vars == <<core, components>>

\* the state outside the Renderer and its transform tree
others == <<clone, snapshot, panel, pending, host, components>>

----------------------------------------------------------------------------
(* Inputs *)

\* The trees explored hold at most this many samples in total.
MaxSamples == 2

FrameIds == {"sensor", "base", "world"}

\* `undefined` passed as rootFrameId; not a frame id.
UndefinedId == "<undefined>"

\* An absent object reference (JavaScript undefined).
Undefined == 0

Stamps == {[sec |-> 0, nsec |-> 1000], [sec |-> 0, nsec |-> 2000]}

\* ROS Vector3 / Quaternion payloads of a TF message.  Rotations are
\* restricted to quarter turns about z, written as the number of quarter
\* turns; translations are integer vectors.  The messages carry the two
\* pure translations of the end-to-end scenario; rotated poses enter
\* through the query inputs.
Vec(x, y, z) == <<x, y, z>>

MsgTransforms ==
    { [translation |-> Vec(1, 0, 0), rotation |-> 0],
      [translation |-> Vec(0, 2, 0), rotation |-> 0] }

TFs ==
    [ header : [frame_id : FrameIds, stamp : Stamps],
      child_frame_id : FrameIds,
      transform : MsgTransforms ]

----------------------------------------------------------------------------
(* Transform algebra (design document section 4.1) *)

NewTransform(translation, rotation) == [t |-> translation, r |-> rotation % 4]

IdentityTransform == NewTransform(Vec(0, 0, 0), 0)

Neg(v) == Vec(0 - v[1], 0 - v[2], 0 - v[3])

Add(u, v) == Vec(u[1] + v[1], u[2] + v[2], u[3] + v[3])

\* v rotated by r quarter turns about z
Rot(r, v) ==
    CASE r % 4 = 0 -> v
      [] r % 4 = 1 -> Vec(0 - v[2], v[1], v[3])
      [] r % 4 = 2 -> Vec(0 - v[1], 0 - v[2], v[3])
      [] r % 4 = 3 -> Vec(v[2], 0 - v[1], v[3])

\* the transform equivalent to applying b, then a
Compose(a, b) == NewTransform(Add(a.t, Rot(a.r, b.t)), a.r + b.r)

Invert(a) == NewTransform(Rot(4 - a.r, Neg(a.t)), 4 - a.r)

\* makePose(): the identity pose
MakePose == [position |-> Vec(0, 0, 0), orientation |-> 0]

\* a pose transformed by a rigid motion
ApplyToPose(a, pose) ==
    [position |-> Add(a.t, Rot(a.r, pose.position)),
     orientation |-> (a.r + pose.orientation) % 4]

\* interpolate(a, b, num/den): linear in the translation (integer
\* arithmetic stands for the floating-point one), shortest arc in the
\* rotation, snapped to the quarter-turn grid
ShortestArc(d) == IF d % 4 = 3 THEN 0 - 1 ELSE d % 4

Lerp(x, y, num, den) == x + ((y - x) * num) \div den

Interpolate(a, b, num, den) ==
    NewTransform(
        Vec(Lerp(a.t[1], b.t[1], num, den),
            Lerp(a.t[2], b.t[2], num, den),
            Lerp(a.t[3], b.t[3], num, den)),
        a.r + 4 + (ShortestArc(b.r - a.r) * num) \div den)

----------------------------------------------------------------------------
(* CoordinateFrame (design document sections 3 and 4.2).  An object is   *)
(* [id, parent, transforms]: parent is a reference or Undefined,          *)
(* transforms is the time-ordered sequence of [time, transform] samples.  *)

\* a lookup that found nothing / a pose query that cannot be answered
NotFound == [ok |-> FALSE]

Found(v) == [ok |-> TRUE, value |-> v]

\* new CoordinateFrame(id, parent)
NewCoordinateFrame(id, parent) == [id |-> id, parent |-> parent, transforms |-> <<>>]

\* frame.parent()
CoordinateFrame_parent(heap, ref) == heap[ref].parent

\* frame.setParent(parent): replaces the parent reference, keeps the samples
CoordinateFrame_setParent(heap, ref, parent) ==
    [heap EXCEPT ![ref].parent = parent]

\* position of the first sample whose time is >= time (Len + 1 if none)
LowerBound(samples, time) ==
    IF \E i \in 1..Len(samples) : samples[i].time >= time
    THEN CHOOSE i \in 1..Len(samples) :
            /\ samples[i].time >= time
            /\ \A j \in 1..(i - 1) : samples[j].time < time
    ELSE Len(samples) + 1

\* frame.addTransform(time, transform): insert in time order, a sample
\* with the same timestamp is overwritten
InsertSample(samples, time, transform) ==
    LET i == LowerBound(samples, time)
        s == [time |-> time, transform |-> transform]
    IN  IF i <= Len(samples) /\ samples[i].time = time
        THEN [samples EXCEPT ![i] = s]
        ELSE SubSeq(samples, 1, i - 1) \o <<s>> \o SubSeq(samples, i, Len(samples))

CoordinateFrame_addTransform(heap, ref, time, transform) ==
    [heap EXCEPT ![ref].transforms = InsertSample(@, time, transform)]

\* sampleAt(time, maxExtrapolation)
SampleAt(samples, time, maxDelta) ==
    LET n  == Len(samples)
        hi == LowerBound(samples, time)
    IN  IF n = 0 THEN NotFound
        ELSE IF hi <= n /\ samples[hi].time = time THEN Found(samples[hi].transform)
        ELSE IF hi = 1 THEN
            \* before the first sample: hold-first within the bound
            IF samples[1].time - time <= maxDelta
            THEN Found(samples[1].transform) ELSE NotFound
        ELSE IF hi = n + 1 THEN
            \* after the last sample: hold-last within the bound
            IF time - samples[n].time <= maxDelta
            THEN Found(samples[n].transform) ELSE NotFound
        ELSE Found(Interpolate(samples[hi - 1].transform, samples[hi].transform,
                               time - samples[hi - 1].time,
                               samples[hi].time - samples[hi - 1].time))

\* frame.root(): walk the parent references to the frame with no parent.
\* The walk is bounded by the number of frames; Undefined if it does not end.
RECURSIVE RootWalk(_, _, _)
RootWalk(heap, ref, fuel) ==
    IF heap[ref].parent = Undefined THEN ref
    ELSE IF fuel = 0 THEN Undefined
    ELSE RootWalk(heap, heap[ref].parent, fuel - 1)

CoordinateFrame_root(heap, ref) == RootWalk(heap, ref, Len(heap))

\* composition of the per-link samples walking from ref up to fixed,
\* each link sampled at time; NotFound if fixed is not reached or a link
\* has no sample available
RECURSIVE PathToFixed(_, _, _, _, _, _)
PathToFixed(heap, ref, fixed, time, maxDelta, fuel) ==
    IF ref = fixed THEN Found(IdentityTransform)
    ELSE IF heap[ref].parent = Undefined \/ fuel = 0 THEN NotFound
    ELSE LET link == SampleAt(heap[ref].transforms, time, maxDelta)
             up   == PathToFixed(heap, heap[ref].parent, fixed, time, maxDelta, fuel - 1)
         IN  IF link.ok /\ up.ok THEN Found(Compose(up.value, link.value)) ELSE NotFound

\* frame.apply(output, input, rootFrame, srcFrame, dstTime, srcTime, maxDelta)
CoordinateFrame_apply(heap, ref, input, rootFrame, srcFrame, dstTime, srcTime, maxDelta) ==
    IF rootFrame = Undefined THEN NotFound
    ELSE LET fromSrc == PathToFixed(heap, srcFrame, rootFrame, srcTime, maxDelta, Len(heap))
             fromDst == PathToFixed(heap, ref, rootFrame, dstTime, maxDelta, Len(heap))
         IN  IF fromSrc.ok /\ fromDst.ok
             THEN Found(ApplyToPose(Compose(Invert(fromDst.value), fromSrc.value), input))
             ELSE NotFound

----------------------------------------------------------------------------
(* Map<string, V> as a sequence of [key, value] entries in insertion order *)

MapHas(m, k) == \E i \in 1..Len(m) : m[i].key = k

MapGet(m, k) ==
    IF MapHas(m, k)
    THEN m[CHOOSE i \in 1..Len(m) : m[i].key = k].value
    ELSE Undefined

\* set(): a present key keeps its position and takes the new value,
\* a new key is appended
MapSet(m, k, v) ==
    IF MapHas(m, k)
    THEN [i \in 1..Len(m) |-> IF m[i].key = k THEN [key |-> k, value |-> v] ELSE m[i]]
    ELSE Append(m, [key |-> k, value |-> v])

----------------------------------------------------------------------------
(* TransformTree.  A tree is [frames, heap]: its _frames map and the     *)
(* heap holding the CoordinateFrame objects the map refers to.            *)

rosTimeToNanoSec(stamp) == stamp.sec * 1000000000 + stamp.nsec

hasFrame(tree, id) == MapHas(tree.frames, id)

frame(tree, id) == MapGet(tree.frames, id)

\* getOrCreateFrame without the `if (!frame)` test: a new object is made
\* and stored on every call
getOrCreateFrame_AlwaysCreate(tree, id) ==
    LET heap == Append(tree.heap, NewCoordinateFrame(id, Undefined))
        ref  == Len(heap)
    IN  [tree |-> [frames |-> MapSet(tree.frames, id, ref), heap |-> heap],
         ref  |-> ref]

\* returns the tree after the call and the frame returned
getOrCreateFrame(tree, id) ==
    LET found == MapGet(tree.frames, id)
    IN  IF found = Undefined
        THEN LET heap == Append(tree.heap, NewCoordinateFrame(id, Undefined))
                 ref  == Len(heap)
             IN  [tree |-> [frames |-> MapSet(tree.frames, id, ref), heap |-> heap],
                  ref  |-> ref]
        ELSE [tree |-> tree, ref |-> found]

\* addTransform that sets the parent only while the frame has none
addTransform_NoReparent(tree, frameId, parentFrameId, time, transform) ==
    LET c == getOrCreateFrame(tree, frameId)
        curParentFrame == CoordinateFrame_parent(c.tree.heap, c.ref)
        p == getOrCreateFrame(c.tree, parentFrameId)
        t1 == IF curParentFrame = Undefined
              THEN [p.tree EXCEPT !.heap = CoordinateFrame_setParent(@, c.ref, p.ref)]
              ELSE c.tree
    IN  [t1 EXCEPT !.heap = CoordinateFrame_addTransform(@, c.ref, time, transform)]

\* addTransform that parents the frame to a new CoordinateFrame it does
\* not store in the map
addTransform_UnregisteredParent(tree, frameId, parentFrameId, time, transform) ==
    LET c == getOrCreateFrame(tree, frameId)
        curParentFrame == CoordinateFrame_parent(c.tree.heap, c.ref)
        reparent ==
            \/ curParentFrame = Undefined
            \/ c.tree.heap[curParentFrame].id # parentFrameId
        heap == Append(c.tree.heap, NewCoordinateFrame(parentFrameId, Undefined))
        t1 == IF reparent
              THEN [c.tree EXCEPT !.heap = CoordinateFrame_setParent(heap, c.ref, Len(heap))]
              ELSE c.tree
    IN  [t1 EXCEPT !.heap = CoordinateFrame_addTransform(@, c.ref, time, transform)]

\* addTransform that pushes the sample onto the end of the frame's list
\* instead of handing it to frame.addTransform
addTransform_AppendsSample(tree, frameId, parentFrameId, time, transform) ==
    LET c == getOrCreateFrame(tree, frameId)
        curParentFrame == CoordinateFrame_parent(c.tree.heap, c.ref)
        reparent ==
            \/ curParentFrame = Undefined
            \/ c.tree.heap[curParentFrame].id # parentFrameId
        p == getOrCreateFrame(c.tree, parentFrameId)
        t1 == IF reparent
              THEN [p.tree EXCEPT !.heap = CoordinateFrame_setParent(@, c.ref, p.ref)]
              ELSE c.tree
    IN  [t1 EXCEPT !.heap[c.ref].transforms =
            Append(@, [time |-> time, transform |-> transform])]

\* addTransform that starts the frame's samples afresh when it re-parents
addTransform_ReparentClears(tree, frameId, parentFrameId, time, transform) ==
    LET c == getOrCreateFrame(tree, frameId)
        curParentFrame == CoordinateFrame_parent(c.tree.heap, c.ref)
        reparent ==
            \/ curParentFrame = Undefined
            \/ c.tree.heap[curParentFrame].id # parentFrameId
        p == getOrCreateFrame(c.tree, parentFrameId)
        t1 == IF reparent
              THEN [p.tree EXCEPT !.heap =
                      [CoordinateFrame_setParent(@, c.ref, p.ref)
                          EXCEPT ![c.ref].transforms = <<>>]]
              ELSE c.tree
    IN  [t1 EXCEPT !.heap = CoordinateFrame_addTransform(@, c.ref, time, transform)]

addTransform(tree, frameId, parentFrameId, time, transform) ==
    LET c == getOrCreateFrame(tree, frameId)
        curParentFrame == CoordinateFrame_parent(c.tree.heap, c.ref)
        reparent ==
            \/ curParentFrame = Undefined
            \/ c.tree.heap[curParentFrame].id # parentFrameId
        p == getOrCreateFrame(c.tree, parentFrameId)
        t1 == IF reparent
              THEN [p.tree EXCEPT !.heap = CoordinateFrame_setParent(@, c.ref, p.ref)]
              ELSE c.tree
    IN  [t1 EXCEPT !.heap = CoordinateFrame_addTransform(@, c.ref, time, transform)]

\* apply that looks its frames up with getOrCreateFrame, as addTransform does
apply_CreatesFrames(tree, input, frameId, rootFrameId, srcFrameId, dstTime, srcTime, maxDelta) ==
    LET d  == getOrCreateFrame(tree, frameId)
        sf == getOrCreateFrame(d.tree, srcFrameId)
        named == IF rootFrameId # UndefinedId
                 THEN frame(sf.tree, rootFrameId)
                 ELSE CoordinateFrame_root(sf.tree.heap, d.ref)
        rootFrame == IF named # Undefined
                     THEN named
                     ELSE CoordinateFrame_root(sf.tree.heap, d.ref)
    IN  [tree |-> sf.tree,
         result |-> CoordinateFrame_apply(sf.tree.heap, d.ref, input, rootFrame,
                                          sf.ref, dstTime, srcTime, maxDelta)]

\* apply without the `?? frame.root()` fallback: an unregistered fixed
\* frame name is not found
apply_NoFallback(tree, input, frameId, rootFrameId, srcFrameId, dstTime, srcTime, maxDelta) ==
    LET dst      == frame(tree, frameId)
        srcFrame == frame(tree, srcFrameId)
    IN  IF dst = Undefined \/ srcFrame = Undefined
        THEN [tree |-> tree, result |-> NotFound]
        ELSE LET rootFrame == IF rootFrameId # UndefinedId
                              THEN frame(tree, rootFrameId)
                              ELSE CoordinateFrame_root(tree.heap, dst)
             IN  [tree |-> tree,
                  result |-> CoordinateFrame_apply(tree.heap, dst, input, rootFrame,
                                                   srcFrame, dstTime, srcTime, maxDelta)]

\* apply that answers a query from a frame to itself at one time with
\* the input pose, without resolving through the fixed frame
apply_SameFrameShortcut(tree, input, frameId, rootFrameId, srcFrameId, dstTime, srcTime, maxDelta) ==
    LET dst      == frame(tree, frameId)
        srcFrame == frame(tree, srcFrameId)
    IN  IF dst = Undefined \/ srcFrame = Undefined
        THEN [tree |-> tree, result |-> NotFound]
        ELSE IF dst = srcFrame /\ dstTime = srcTime
        THEN [tree |-> tree, result |-> Found(input)]
        ELSE LET named == IF rootFrameId # UndefinedId
                          THEN frame(tree, rootFrameId)
                          ELSE CoordinateFrame_root(tree.heap, dst)
                 rootFrame == IF named # Undefined
                              THEN named
                              ELSE CoordinateFrame_root(tree.heap, dst)
             IN  [tree |-> tree,
                  result |-> CoordinateFrame_apply(tree.heap, dst, input, rootFrame,
                                                   srcFrame, dstTime, srcTime, maxDelta)]

\* apply that always resolves through the destination's root, whatever
\* fixed frame is named
apply_IgnoresFixedFrame(tree, input, frameId, rootFrameId, srcFrameId, dstTime, srcTime, maxDelta) ==
    LET dst      == frame(tree, frameId)
        srcFrame == frame(tree, srcFrameId)
    IN  IF dst = Undefined \/ srcFrame = Undefined
        THEN [tree |-> tree, result |-> NotFound]
        ELSE [tree |-> tree,
              result |-> CoordinateFrame_apply(tree.heap, dst, input,
                                               CoordinateFrame_root(tree.heap, dst),
                                               srcFrame, dstTime, srcTime, maxDelta)]

\* apply that hands the source frame and the destination frame to
\* CoordinateFrame.apply in each other's place
apply_SwapsFrames(tree, input, frameId, rootFrameId, srcFrameId, dstTime, srcTime, maxDelta) ==
    LET dst      == frame(tree, frameId)
        srcFrame == frame(tree, srcFrameId)
    IN  IF dst = Undefined \/ srcFrame = Undefined
        THEN [tree |-> tree, result |-> NotFound]
        ELSE LET named == IF rootFrameId # UndefinedId
                          THEN frame(tree, rootFrameId)
                          ELSE CoordinateFrame_root(tree.heap, dst)
                 rootFrame == IF named # Undefined
                              THEN named
                              ELSE CoordinateFrame_root(tree.heap, dst)
             IN  [tree |-> tree,
                  result |-> CoordinateFrame_apply(tree.heap, srcFrame, input, rootFrame,
                                                   dst, dstTime, srcTime, maxDelta)]

\* apply that does not forward maxDelta: every link is looked up with no
\* limit on the distance to the nearest sample
apply_DropsMaxDelta(tree, input, frameId, rootFrameId, srcFrameId, dstTime, srcTime, maxDelta) ==
    LET dst      == frame(tree, frameId)
        srcFrame == frame(tree, srcFrameId)
    IN  IF dst = Undefined \/ srcFrame = Undefined
        THEN [tree |-> tree, result |-> NotFound]
        ELSE LET named == IF rootFrameId # UndefinedId
                          THEN frame(tree, rootFrameId)
                          ELSE CoordinateFrame_root(tree.heap, dst)
                 rootFrame == IF named # Undefined
                              THEN named
                              ELSE CoordinateFrame_root(tree.heap, dst)
                 far == IF dstTime > srcTime THEN dstTime ELSE srcTime
             IN  [tree |-> tree,
                  result |-> CoordinateFrame_apply(tree.heap, dst, input, rootFrame,
                                                   srcFrame, dstTime, srcTime,
                                                   far + 1000000000)]

\* returns the tree after the call (apply only reads it) and the result
apply(tree, input, frameId, rootFrameId, srcFrameId, dstTime, srcTime, maxDelta) ==
    LET dst      == frame(tree, frameId)
        srcFrame == frame(tree, srcFrameId)
    IN  IF dst = Undefined \/ srcFrame = Undefined
        THEN [tree |-> tree, result |-> NotFound]
        ELSE LET named == IF rootFrameId # UndefinedId
                          THEN frame(tree, rootFrameId)
                          ELSE CoordinateFrame_root(tree.heap, dst)
                 rootFrame == IF named # Undefined
                              THEN named
                              ELSE CoordinateFrame_root(tree.heap, dst)
             IN  [tree |-> tree,
                  result |-> CoordinateFrame_apply(tree.heap, dst, input, rootFrame,
                                                   srcFrame, dstTime, srcTime, maxDelta)]

----------------------------------------------------------------------------
(* Renderer *)

\* A renderable is a THREE.Object3D: visible, at the origin and unrotated
\* when constructed, with userData.frameId and userData.pose.
addCoordinateFrameRenderable(renderables, frameId) ==
    IF MapHas(renderables, frameId) THEN renderables
    ELSE MapSet(renderables, frameId,
                [frameId |-> frameId, pose |-> MakePose, visible |-> TRUE,
                 position |-> Vec(0, 0, 0), quaternion |-> 0])

\* addTransformMessage that reports a new frame only for the child
addTransformMessage_ChildOnly(tree, renderables, tf) ==
    LET newParent == ~hasFrame(tree, tf.header.frame_id)
        r1 == IF newParent
              THEN addCoordinateFrameRenderable(renderables, tf.header.frame_id)
              ELSE renderables
        newChild == ~hasFrame(tree, tf.child_frame_id)
        r2 == IF newChild
              THEN addCoordinateFrameRenderable(r1, tf.child_frame_id)
              ELSE r1
        stamp == rosTimeToNanoSec(tf.header.stamp)
        transform == NewTransform(tf.transform.translation, tf.transform.rotation)
    IN  [tree |-> addTransform(tree, tf.child_frame_id, tf.header.frame_id, stamp, transform),
         renderables |-> r2,
         emits |-> IF newChild THEN 1 ELSE 0]

\* addTransformMessage that makes a renderable only for a new child frame
addTransformMessage_NoParentRenderable(tree, renderables, tf) ==
    LET newParent == ~hasFrame(tree, tf.header.frame_id)
        newChild == ~hasFrame(tree, tf.child_frame_id)
        r2 == IF newChild
              THEN addCoordinateFrameRenderable(renderables, tf.child_frame_id)
              ELSE renderables
        frameAdded == newParent \/ newChild
        stamp == rosTimeToNanoSec(tf.header.stamp)
        transform == NewTransform(tf.transform.translation, tf.transform.rotation)
    IN  [tree |-> addTransform(tree, tf.child_frame_id, tf.header.frame_id, stamp, transform),
         renderables |-> r2,
         emits |-> IF frameAdded THEN 1 ELSE 0]

\* the Renderer after addTransformMessage(tf): its transform tree, its
\* renderables and the number of events emitted by the call
addTransformMessage(tree, renderables, tf) ==
    LET newParent == ~hasFrame(tree, tf.header.frame_id)
        r1 == IF newParent
              THEN addCoordinateFrameRenderable(renderables, tf.header.frame_id)
              ELSE renderables
        newChild == ~hasFrame(tree, tf.child_frame_id)
        r2 == IF newChild
              THEN addCoordinateFrameRenderable(r1, tf.child_frame_id)
              ELSE r1
        frameAdded == newParent \/ newChild
        stamp == rosTimeToNanoSec(tf.header.stamp)
        transform == NewTransform(tf.transform.translation, tf.transform.rotation)
    IN  [tree |-> addTransform(tree, tf.child_frame_id, tf.header.frame_id, stamp, transform),
         renderables |-> r2,
         emits |-> IF frameAdded THEN 1 ELSE 0]

\* the part of transformTree.addTransform before the sample is stored:
\* both frames looked up or created, the child re-parented if need be
addTransform_frames(tree, frameId, parentFrameId) ==
    LET c == getOrCreateFrame(tree, frameId)
        curParentFrame == CoordinateFrame_parent(c.tree.heap, c.ref)
        reparent ==
            \/ curParentFrame = Undefined
            \/ c.tree.heap[curParentFrame].id # parentFrameId
        p == getOrCreateFrame(c.tree, parentFrameId)
    IN  [tree |-> IF reparent
                  THEN [p.tree EXCEPT !.heap = CoordinateFrame_setParent(@, c.ref, p.ref)]
                  ELSE c.tree,
         ref  |-> c.ref]

\* updatePose that shows the renderable whether or not a pose was applied
updatePose_AlwaysVisible(renderable, tree, renderFrameId, fixedFrameId, srcFrameId, dstTime, srcTime, maxDelta) ==
    LET tempPose == apply(tree, renderable.pose, renderFrameId, fixedFrameId,
                          srcFrameId, dstTime, srcTime, maxDelta).result
        poseApplied == tempPose.ok
    IN  IF poseApplied
        THEN [renderable EXCEPT !.visible = TRUE,
                                !.position = tempPose.value.position,
                                !.quaternion = tempPose.value.orientation]
        ELSE [renderable EXCEPT !.visible = TRUE]

\* updatePose(renderable, transformTree, renderFrameId, fixedFrameId,
\*            srcFrameId, dstTime, srcTime); maxDelta is the limit apply
\* uses when it is called without one
updatePose(renderable, tree, renderFrameId, fixedFrameId, srcFrameId, dstTime, srcTime, maxDelta) ==
    LET tempPose == apply(tree, renderable.pose, renderFrameId, fixedFrameId,
                          srcFrameId, dstTime, srcTime, maxDelta).result
        poseApplied == tempPose.ok
    IN  IF poseApplied
        THEN [renderable EXCEPT !.visible = TRUE,
                                !.position = tempPose.value.position,
                                !.quaternion = tempPose.value.orientation]
        ELSE [renderable EXCEPT !.visible = FALSE]

\* the fixed frame of frameHandler: the first key of the frame map
fixedFrameIdOf_LastKey(tree) ==
    IF Len(tree.frames) > 0 THEN tree.frames[Len(tree.frames)].key ELSE UndefinedId

fixedFrameIdOf(tree) ==
    IF Len(tree.frames) > 0 THEN tree.frames[1].key ELSE UndefinedId

\* the coordinate frame renderables after frameHandler(currentTime)
frameHandler(tree, renderables, currentTime, maxDelta) ==
    LET fixedFrameId == fixedFrameIdOf(tree)
    IN  IF fixedFrameId = UndefinedId THEN renderables
        ELSE [i \in 1..Len(renderables) |->
                [key   |-> renderables[i].key,
                 value |-> updatePose(renderables[i].value, tree, fixedFrameId,
                                      fixedFrameId, renderables[i].key,
                                      currentTime, currentTime, maxDelta)]]

----------------------------------------------------------------------------
(* ros.ts.  A string is the sequence of its names and separators:         *)
(* "tf2_msgs/TFMessage" is <<"tf2_msgs", "/", "TFMessage">>.              *)

\* str.split(sep)
RECURSIVE Split(_, _)
Split(str, sep) ==
    IF \E i \in 1..Len(str) : str[i] = sep
    THEN LET i == CHOOSE k \in 1..Len(str) :
                    str[k] = sep /\ \A j \in 1..(k - 1) : str[j] # sep
         IN  <<SubSeq(str, 1, i - 1)>> \o Split(SubSeq(str, i + 1, Len(str)), sep)
    ELSE <<str>>

\* parts.join(sep)
RECURSIVE Join(_, _)
Join(parts, sep) ==
    IF Len(parts) = 0 THEN <<>>
    ELSE IF Len(parts) = 1 THEN parts[1]
    ELSE parts[1] \o <<sep>> \o Join(Tail(parts), sep)

\* addRosDataType without the ROS2 variation
addRosDataType_Ros1AndProtobuf(output, dataType) ==
    output \cup {dataType} \cup {<<"ros", ".">> \o Join(Split(dataType, "/"), ".")}

\* addRosDataType(output, dataType): the set with the ROS1, ROS2 and
\* protobuf variations of dataType added
addRosDataType(output, dataType) ==
    LET parts == Split(dataType, "/")
        ros2  == IF Len(parts) > 1
                 THEN {parts[1] \o <<"/", "msg", "/">> \o Join(Tail(parts), "/")}
                 ELSE {}
    IN  output \cup {dataType} \cup ros2
               \cup {<<"ros", ".">> \o Join(Split(dataType, "/"), ".")}

TRANSFORM_STAMPED_DATATYPES ==
    addRosDataType({}, <<"geometry_msgs", "/", "TransformStamped">>)

TF_DATATYPES ==
    addRosDataType(addRosDataType({}, <<"tf", "/", "tfMessage">>),
                   <<"tf2_msgs", "/", "TFMessage">>)

----------------------------------------------------------------------------
(* ThreeDeePanel.  The values of the useState hooks are records: NoValue  *)
(* is undefined, an array is [ref, items] with ref standing for its       *)
(* identity, a time is [time], a done callback is [done].                 *)

NoValue == [undefined |-> TRUE]

EMPTY_LIST == <<>>

\* topicsToDatatypes: topic name to datatype, a later topic of the same
\* name replacing an earlier one
topicsToDatatypes(topics) ==
    IF topics = NoValue THEN <<>>
    ELSE LET RECURSIVE Build(_, _)
             Build(map, i) ==
                IF i > Len(topics.items) THEN map
                ELSE Build(MapSet(map, topics.items[i].name, topics.items[i].datatype),
                           i + 1)
         IN  Build(<<>>, 1)

\* topicsToSubscribe: the names of the transform topics, in order
topicsToSubscribe(topics) ==
    IF topics = NoValue THEN EMPTY_LIST
    ELSE LET RECURSIVE Build(_, _)
             Build(subscriptionList, i) ==
                IF i > Len(topics.items) THEN subscriptionList
                ELSE Build(
                        IF \/ topics.items[i].datatype \in TF_DATATYPES
                           \/ topics.items[i].datatype \in TRANSFORM_STAMPED_DATATYPES
                        THEN Append(subscriptionList, topics.items[i].name)
                        ELSE subscriptionList,
                        i + 1)
         IN  Build(<<>>, 1)

\* getCurrentTime(currentFrame): the latest receiveTime, NoValue if empty
getCurrentTime(currentFrame) ==
    IF Len(currentFrame.items) = 0 THEN NoValue
    ELSE LET times == {rosTimeToNanoSec(currentFrame.items[i].receiveTime) :
                          i \in 1..Len(currentFrame.items)}
         IN  [time |-> CHOOSE t \in times : \A u \in times : u <= t]

\* the transforms the handle-messages effect hands to
\* renderer.addTransformMessage, in order: only the first transform of a
\* TFMessage
transformsToIngest_FirstOnly(messages, topics) ==
    LET datatypes == topicsToDatatypes(topics)
        RECURSIVE Collect(_, _)
        Collect(tfs, i) ==
            IF i > Len(messages.items) THEN tfs
            ELSE LET message  == messages.items[i]
                     datatype == MapGet(datatypes, message.topic)
                 IN  Collect(
                        IF ~MapHas(datatypes, message.topic) \/ datatype = <<>> THEN tfs
                        ELSE IF datatype \in TF_DATATYPES
                        THEN tfs \o SubSeq(message.message.transforms, 1, 1)
                        ELSE IF datatype \in TRANSFORM_STAMPED_DATATYPES
                        THEN Append(tfs, message.message)
                        ELSE tfs,
                        i + 1)
    IN  Collect(<<>>, 1)

\* the transforms the handle-messages effect hands to
\* renderer.addTransformMessage, in order
transformsToIngest(messages, topics) ==
    LET datatypes == topicsToDatatypes(topics)
        RECURSIVE Collect(_, _)
        Collect(tfs, i) ==
            IF i > Len(messages.items) THEN tfs
            ELSE LET message  == messages.items[i]
                     datatype == MapGet(datatypes, message.topic)
                 IN  Collect(
                        IF ~MapHas(datatypes, message.topic) \/ datatype = <<>> THEN tfs
                        ELSE IF datatype \in TF_DATATYPES
                        THEN tfs \o message.message.transforms
                        ELSE IF datatype \in TRANSFORM_STAMPED_DATATYPES
                        THEN Append(tfs, message.message)
                        ELSE tfs,
                        i + 1)
    IN  Collect(<<>>, 1)

\* The panel and all it acts on, as one value w: the component's hooks
\* (panel), the extension context and its done callback (host), and the
\* Renderer with its transform tree.  panel.queue holds the state updates
\* not yet rendered, panel.pending the effects of the last commit not yet
\* run.

IsFunction(action) == "done" \in DOMAIN action

\* the host's done callback runs; it returns undefined
callDone(w) == [w EXCEPT !.host.awaiting = FALSE, !.host.log = Append(@, "done")]

\* the element of a set of one
The(S) == CHOOSE x \in S : TRUE

\* renderer.addTransformMessage(tf) for each tf in turn, each call on
\* what the call before left
RECURSIVE addTransformMessages(_, _)
addTransformMessages(r, tfs) ==
    IF tfs = <<>> THEN r
    ELSE The({addTransformMessages(
                [tree |-> after.tree, renderables |-> after.renderables,
                 emits |-> r.emits + after.emits],
                Tail(tfs))
              : after \in {addTransformMessage(r.tree, r.renderables, Head(tfs))}})

Range(seq) == {seq[i] : i \in 1..Len(seq)}

\* the handle-messages effect
handleMessages(w) ==
    IF w.panel.messages = NoValue \/ ~w.panel.renderer THEN w
    ELSE LET tfs == transformsToIngest(w.panel.messages, w.panel.topics)
         IN  The({[w EXCEPT !.frames = after.tree.frames,
                            !.heap = after.tree.heap,
                            !.renderables = after.renderables,
                            !.emitted = @ + after.emits,
                            !.seen = @ \cup {tf.header.frame_id : tf \in Range(tfs)}
                                       \cup {tf.child_frame_id : tf \in Range(tfs)},
                            !.host.ingested = @ \cup Range(tfs),
                            !.host.owed = @ \ Range(tfs),
                            !.host.log = IF w.panel.messages.ref = w.host.tick
                                         THEN Append(@, "handled") ELSE @]
                  : after \in {addTransformMessages(
                                  [tree |-> [frames |-> w.frames, heap |-> w.heap],
                                   renderables |-> w.renderables, emits |-> 0], tfs)}})

\* the effects whose dependencies differ between two renders, by name
effectsDue(prev, next) ==
    {e \in {"subscribe", "currentTime", "messages", "renderDone"} :
        \/ e = "subscribe" /\ next.topics # prev.topics
        \/ e = "currentTime"
              /\ (next.currentTime # prev.currentTime \/ next.renderer # prev.renderer)
        \/ e = "messages"
              /\ (next.messages # prev.messages \/ next.topics # prev.topics)
        \/ e = "renderDone" /\ next.renderDone # prev.renderDone}

\* one effect of the component, run if it is pending
runEffect(w, effect) ==
    IF effect \notin w.panel.pending THEN w
    ELSE CASE effect = "subscribe" ->
                [w EXCEPT !.host.subscribed = [topics |-> topicsToSubscribe(w.panel.topics)]]
           [] effect = "currentTime" ->
                IF w.panel.renderer /\ w.panel.currentTime # NoValue
                THEN [w EXCEPT !.panel.rendererCurrentTime = w.panel.currentTime]
                ELSE w
           [] effect = "messages" -> handleMessages(w)
           [] effect = "renderDone" ->
                IF w.panel.renderDone # NoValue THEN callDone(w) ELSE w

RECURSIVE runEffects(_, _)
runEffects(w, effects) ==
    IF effects = <<>> THEN w
    ELSE The({runEffects(after, Tail(effects)) : after \in {runEffect(w, Head(effects))}})

\* the pending effects run, in the order the component declares them
flushEffects(world) ==
    The({[runEffects(w, <<"subscribe", "currentTime", "messages", "renderDone">>)
            EXCEPT !.panel.pending = {}] : w \in {world}})

\* one queued update applied to its hook; an update that is a function
\* is called with the state and its result is stored
applyUpdate(w, u) ==
    IF IsFunction(u.action)
    THEN [callDone(w) EXCEPT !.panel[u.hook] = NoValue]
    ELSE [w EXCEPT !.panel[u.hook] = u.action]

\* the queued updates applied to the hooks, oldest first
RECURSIVE applyUpdates(_, _)
applyUpdates(w, queue) ==
    IF queue = <<>> THEN w
    ELSE The({applyUpdates(after, Tail(queue)) : after \in {applyUpdate(w, Head(queue))}})

\* the commit of a render: the renderer is made when the canvas has
\* changed, and the effects whose dependencies changed become pending
commit(prev, applied) ==
    LET next == [applied.panel EXCEPT
                    !.renderer = IF applied.panel.canvas # prev.canvas
                                 THEN applied.panel.canvas # NoValue
                                 ELSE @,
                    !.queue = <<>>]
    IN  [applied EXCEPT !.panel = [next EXCEPT !.pending = effectsDue(prev, next)]]

\* one render and commit of the component: the effects still pending run
\* first, then the queued updates are applied and the result committed
render(world) ==
    The({The({commit(flushed.panel, applied)
              : applied \in {applyUpdates(flushed, flushed.panel.queue)}})
         : flushed \in {flushEffects(world)}})

\* a useState setter called outside a render: inside a batch the update
\* waits for the render at the end of the batch, else it is rendered at once
setState(world, hook, action, batched) ==
    The({IF batched THEN queued ELSE render(queued)
         : queued \in {[world EXCEPT !.panel.queue =
                            Append(@, [hook |-> hook, action |-> action])]}})

\* setCurrentTime(latest), if the frame has a latest receive time
setsCurrentTime(w, renderState, batched) ==
    IF renderState.currentFrame = NoValue
       \/ getCurrentTime(renderState.currentFrame) = NoValue
    THEN w
    ELSE setState(w, "currentTime", getCurrentTime(renderState.currentFrame), batched)

\* setRenderDone(done).  React may compute the state of an update at once
\* when none is queued (eager).
setsRenderDone(w, done, batched, eager) ==
    IF eager /\ w.panel.queue = <<>>
    THEN callDone(w)
    ELSE setState(w, "renderDone", done, batched)

\* the setter calls of context.onRender(renderState, done), in order
onRenderSets(world, renderState, done, batched, eager) ==
    The({The({The({setState(w3, "messages", renderState.currentFrame, batched)
                   : w3 \in {setState(w2, "topics", renderState.topics, batched)}})
              : w2 \in {setsRenderDone(w1, done, batched, eager)}})
         : w1 \in {setsCurrentTime(world, renderState, batched)}})

\* context.onRender(renderState, done), with the render that ends the batch
onRender(world, renderState, done, batched, eager) ==
    The({IF batched THEN render(sets) ELSE sets
         : sets \in {onRenderSets(world, renderState, done, batched, eager)}})

\* ReactDOM.render: the first render, its commit (the canvas ref is
\* attached and setCanvas called, then the layout effect installs
\* onRender and calls context.watch), and the render of the canvas
\* update that ends the commit
mount(w) ==
    [w EXCEPT !.panel.mounted = TRUE,
              !.panel.queue = <<[hook |-> "canvas", action |-> [element |-> "canvas"]]>>,
              !.panel.pending = {"subscribe", "currentTime", "messages", "renderDone"},
              !.host.onRender = TRUE,
              !.host.watched = {"topics", "currentFrame"}]

----------------------------------------------------------------------------
(* MaterialCache.  A material is an object made by a create callback,     *)
(* known by the number of the create call that made it; an entry is       *)
(* [material, refCount, disposer].                                        *)

MaterialIds == {"BasicColor-ff0000ff", "StandardColor-00ff00ff"}

\* the dispose callbacks callers pass to acquire
Disposers == {"disposeA", "disposeB"}

\* create calls made in a run
MaxMaterials == 3

\* references held to one material
MaxRefs == 2

\* acquire calls for one material
MaxAcquires == 3

\* release that calls the disposer and keeps the entry
release_KeepsEntry(cache, id) ==
    IF ~MapHas(cache, id) THEN [materials |-> cache, result |-> 0, disposed |-> <<>>]
    ELSE LET entry == [MapGet(cache, id) EXCEPT !.refCount = @ - 1]
         IN  IF entry.refCount = 0
             THEN [materials |-> MapSet(cache, id, entry),
                   result    |-> entry.refCount,
                   disposed  |-> <<[disposer |-> entry.disposer,
                                    material |-> entry.material]>>]
             ELSE [materials |-> MapSet(cache, id, entry),
                   result    |-> entry.refCount,
                   disposed  |-> <<>>]

\* acquire(id, create, dispose): the cache after the call, the material
\* returned and the number of create calls made; fresh is the material
\* that create would make
acquire(cache, id, fresh, dispose) ==
    LET found == MapHas(cache, id)
        entry == IF found THEN MapGet(cache, id)
                 ELSE [material |-> fresh, refCount |-> 0, disposer |-> dispose]
        held  == [entry EXCEPT !.refCount = @ + 1]
    IN  [materials |-> MapSet(cache, id, held),
         result    |-> held.material,
         creates   |-> IF found THEN 0 ELSE 1]

\* delete(): the map without the key
MapDelete(m, k) == SelectSeq(m, LAMBDA e : e.key # k)

\* release(id): the cache after the call, the number returned and the
\* disposer calls made, each with its material
release(cache, id) ==
    IF ~MapHas(cache, id) THEN [materials |-> cache, result |-> 0, disposed |-> <<>>]
    ELSE LET entry == [MapGet(cache, id) EXCEPT !.refCount = @ - 1]
         IN  IF entry.refCount = 0
             THEN [materials |-> MapDelete(cache, id),
                   result    |-> entry.refCount,
                   disposed  |-> <<[disposer |-> entry.disposer,
                                    material |-> entry.material]>>]
             ELSE [materials |-> MapSet(cache, id, entry),
                   result    |-> entry.refCount,
                   disposed  |-> <<>>]

----------------------------------------------------------------------------
(* renderables/Markers.ts.  Markers is an Object3D whose children are the  *)
(* marker renderables; a renderable is an Object3D whose children are the  *)
(* meshes of its marker.  The Object3Ds made by addMarkerMessage live in a *)
(* heap of their own, and the scene of a loaded glTF is an object with a   *)
(* parent reference, as Object3D.add moves an object that has a parent.    *)

\* `${id}` for the marker ids in use
NumberToString(n) == <<CASE n = 7 -> "7" [] n = 8 -> "8">>

WhiteSpace == {" ", "\t"}

\* String.replace(/\s/g, "_")
ReplaceWhiteSpace(s) == [i \in 1..Len(s) |-> IF s[i] \in WhiteSpace THEN "_" ELSE s[i]]

\* getMarkerId(topic, ns, id)
getMarkerId(topic, ns, id) ==
    ReplaceWhiteSpace(topic \o <<":">> \o (IF ns # <<>> THEN ns \o <<":">> ELSE <<>>)
                            \o NumberToString(id))

MESH_FETCH_FAILED == "MESH_FETCH_FAILED"

\* new THREE.Object3D() with the fields addMarkerMessage gives it
NewMarkerRenderable(markerId, topic, marker) ==
    [name |-> markerId, topic |-> topic, marker |-> marker,
     srcTime |-> rosTimeToNanoSec(marker.header.stamp), pose |-> MakePose,
     children |-> <<>>, parent |-> "null", visible |-> TRUE,
     position |-> Vec(0, 0, 0), quaternion |-> 0]

\* the children of a renderable: the meshes made for it, and glTF scenes
MeshChild(kind) == [kind |-> kind, gltf |-> 0]

SceneChild(gltf) == [kind |-> "scene", gltf |-> gltf]

\* a value of the gltfMeshes map: a loaded GLTF, or false
Loaded(gltf) == [ok |-> TRUE, gltf |-> gltf]

Failed == [ok |-> FALSE, gltf |-> 0]

NoLoad == [output |-> 0]

\* output.add(gltf.scene): Object3D.add takes the object out of the
\* children of its parent, if it is among them, and appends it
addScene(m, output, gltf) ==
    LET scene == SceneChild(gltf)
        old == m.scenes[gltf].parent
        removed == IF old # 0
                   THEN [m.heap EXCEPT ![old].children = SelectSeq(@, LAMBDA c : c # scene)]
                   ELSE m.heap
    IN  [m EXCEPT !.heap = [removed EXCEPT ![output].children = Append(@, scene)],
                  !.scenes[gltf].parent = output]

\* _createCube(output, marker)
_createCube(m, output, marker) ==
    [m EXCEPT !.heap[output].children = @ \o <<MeshChild("cube"), MeshChild("line")>>]

\* _createMeshResource(output, topic, marker) up to its await: the
\* markers, and the load it started
_createMeshResource(m, output, topic, marker) ==
    IF MapHas(m.gltfMeshes, marker.mesh_resource)
    THEN LET gltf == MapGet(m.gltfMeshes, marker.mesh_resource)
         IN  [markers |-> IF gltf.ok THEN addScene(m, output, gltf.gltf) ELSE m,
              load    |-> NoLoad]
    ELSE [markers |-> m,
          load    |-> [output |-> output, topic |-> topic, marker |-> marker]]

\* _createMeshResource after its await, the promise resolved
_createMeshResource_resolved(m, load) ==
    LET gltf == Len(m.scenes) + 1
        m1 == [m EXCEPT !.scenes = Append(@, [parent |-> 0]),
                        !.gltfMeshes = MapSet(@, load.marker.mesh_resource, Loaded(gltf))]
    IN  addScene(m1, load.output, gltf)

\* _createMeshResource after its await, the promise rejected
_createMeshResource_rejected(m, load) ==
    [m EXCEPT !.topicErrors = @ \cup {<<load.topic, MESH_FETCH_FAILED>>},
              !.gltfMeshes = MapSet(@, load.marker.mesh_resource, Failed)]

\* _updateMarkerRenderable(renderable, topic, marker): the markers, and
\* the load it started.  children.length = 0 drops the children and
\* leaves their parent references.
_updateMarkerRenderable(m, renderable, topic, marker) ==
    LET m1 == The({[m EXCEPT !.heap[renderable].topic = topic,
                             !.heap[renderable].marker = marker,
                             !.heap[renderable].pose = marker.pose,
                             !.heap[renderable].children = <<>>]})
    IN  CASE marker.type = "CUBE" ->
               [markers |-> _createCube(m1, renderable, marker), load |-> NoLoad]
          [] marker.type = "TEXT_VIEW_FACING" ->
               [markers |-> m1, load |-> NoLoad]
          [] marker.type = "MESH_RESOURCE" ->
               _createMeshResource(m1, renderable, topic, marker)

\* addMarkerMessage that makes a renderable for every message
addMarkerMessage_AlwaysNew(m, topic, marker) ==
    LET markerId == getMarkerId(topic, marker.ns, marker.id)
        renderable == Len(m.heap) + 1
        m1 == The({[m EXCEPT
                      !.heap = Append(@, [NewMarkerRenderable(markerId, topic, marker)
                                            EXCEPT !.parent = "Markers"]),
                      !.children = Append(@, renderable),
                      !.renderables = MapSet(@, markerId, renderable)]})
    IN  _updateMarkerRenderable(m1, renderable, topic, marker)

\* addMarkerMessage(topic, marker): the markers, and the load it started
addMarkerMessage(m, topic, marker) ==
    LET markerId == getMarkerId(topic, marker.ns, marker.id)
        found == MapHas(m.renderables, markerId)
        renderable == IF found THEN MapGet(m.renderables, markerId) ELSE Len(m.heap) + 1
        m1 == The({IF found THEN m
                   ELSE [m EXCEPT
                           !.heap = Append(@, [NewMarkerRenderable(markerId, topic, marker)
                                                 EXCEPT !.parent = "Markers"]),
                           !.children = Append(@, renderable),
                           !.renderables = MapSet(@, markerId, renderable)]})
    IN  _updateMarkerRenderable(m1, renderable, topic, marker)

\* removeMarkerMessage(topic, ns, id)
removeMarkerMessage(m, topic, ns, id) ==
    LET markerId == getMarkerId(topic, ns, id)
    IN  IF MapHas(m.renderables, markerId)
        THEN LET renderable == MapGet(m.renderables, markerId)
             IN  [m EXCEPT !.heap[renderable].parent = "null",
                           !.children = SelectSeq(@, LAMBDA r : r # renderable),
                           !.renderables = MapDelete(@, markerId)]
        ELSE m

\* the source time startFrame passes to updatePose for a renderable
srcTimeOf(renderable, currentTime) ==
    IF renderable.marker.frame_locked THEN currentTime ELSE renderable.srcTime

\* startFrame(currentTime), with renderer.renderFrameId and
\* renderer.fixedFrameId: the markers, the source time passed to
\* updatePose for each renderable, and the showLabel events emitted
startFrame(m, tree, renderFrameId, fixedFrameId, currentTime, maxDelta) ==
    IF renderFrameId = UndefinedId \/ fixedFrameId = UndefinedId
    THEN [markers |-> m, passed |-> <<>>, labels |-> <<>>]
    ELSE LET entries == m.renderables
             posed(r) == updatePose(m.heap[r], tree, renderFrameId, fixedFrameId,
                                    m.heap[r].marker.header.frame_id, currentTime,
                                    srcTimeOf(m.heap[r], currentTime), maxDelta)
             values == {entries[i].value : i \in 1..Len(entries)}
         IN  [markers |-> [m EXCEPT !.heap = [r \in 1..Len(m.heap) |->
                                                IF r \in values THEN posed(r) ELSE m.heap[r]]],
              passed  |-> [i \in 1..Len(entries) |->
                             [key |-> entries[i].key,
                              srcTime |-> srcTimeOf(m.heap[entries[i].value], currentTime)]],
              labels  |-> LET shown == SelectSeq(entries,
                                         LAMBDA e : m.heap[e.value].marker.text # <<>>)
                          IN  [i \in 1..Len(shown) |->
                                 getMarkerId(m.heap[shown[i].value].topic,
                                             m.heap[shown[i].value].marker.ns,
                                             m.heap[shown[i].value].marker.id)]]

----------------------------------------------------------------------------
(* Input.  Client positions are whole pixels of a window that is           *)
(* InnerSize pixels wide and high, so that the normalized device           *)
(* coordinates of a position are whole numbers too.  A distance is         *)
(* compared through its square.                                            *)

MAX_DIST == 1

Vector2(x, y) == [x |-> x, y |-> y]

\* the largest clientX and clientY of an event
MaxCoord == 2

ClientPositions == {Vector2(x, y) : x \in 0..MaxCoord, y \in 0..MaxCoord}

\* window.innerWidth and window.innerHeight
InnerSize == 2

\* a.distanceTo(b), squared
distanceToSquared(a, b) == (a.x - b.x) * (a.x - b.x) + (a.y - b.y) * (a.y - b.y)

\* updateCursorCoords(event)
updateCursorCoords(event) ==
    Vector2((event.clientX * 2) \div InnerSize - 1, 0 - ((event.clientY * 2) \div InnerSize) + 1)

\* onMouseDown(event): the Input, and the event emitted
onMouseDown(this, event) ==
    [startClientPos |-> Vector2(event.clientX, event.clientY),
     cursorCoords   |-> this.cursorCoords,
     emitted        |-> "mousedown"]

\* onMouseMove(event)
onMouseMove(this, event) ==
    [startClientPos |-> this.startClientPos,
     cursorCoords   |-> updateCursorCoords(event),
     emitted        |-> "mousemove"]

\* onClick that leaves the recorded press in place
onClick_KeepsPress(this, event) ==
    IF this.startClientPos = NoValue
    THEN [startClientPos |-> this.startClientPos, cursorCoords |-> this.cursorCoords,
          emitted |-> "none"]
    ELSE LET newPos == Vector2(event.clientX, event.clientY)
             distSq == distanceToSquared(this.startClientPos, newPos)
         IN  IF distSq > MAX_DIST * MAX_DIST
             THEN [startClientPos |-> this.startClientPos, cursorCoords |-> this.cursorCoords,
                   emitted |-> "none"]
             ELSE [startClientPos |-> this.startClientPos,
                   cursorCoords |-> updateCursorCoords(event), emitted |-> "click"]

\* onClick(event)
onClick(this, event) ==
    IF this.startClientPos = NoValue
    THEN [startClientPos |-> this.startClientPos, cursorCoords |-> this.cursorCoords,
          emitted |-> "none"]
    ELSE LET newPos == Vector2(event.clientX, event.clientY)
             distSq == distanceToSquared(this.startClientPos, newPos)
         IN  IF distSq > MAX_DIST * MAX_DIST
             THEN [startClientPos |-> NoValue, cursorCoords |-> this.cursorCoords,
                   emitted |-> "none"]
             ELSE [startClientPos |-> NoValue, cursorCoords |-> updateCursorCoords(event),
                   emitted |-> "click"]

\* onTouchStart(event): event.touches is a list of touches
onTouchStart(this, event) ==
    [startClientPos |-> IF Len(event.touches) > 0
                        THEN Vector2(event.touches[1].clientX, event.touches[1].clientY)
                        ELSE this.startClientPos,
     cursorCoords   |-> this.cursorCoords,
     emitted        |-> "none"]

----------------------------------------------------------------------------
(* The state machine.  JavaScript runs each handler to completion, so an  *)
(* operation is one call step, which has all of the operation's effects   *)
(* and notes its arguments and result in the call record, and a return    *)
(* step, which drops the record; no other operation starts in between.    *)

Tree == [frames |-> frames, heap |-> objs]

NoCall == [op |-> "none"]

\* A TransformTree object is [_frames]: a reference to its Map object.
\* FramesMap is the Map the Renderer's tree was constructed with, whose
\* entries are in `frames`; OwnMap is the Map a tree made by
\* `new TransformTree()` is constructed with, which stays empty.
FramesMap == "Renderer.transformTree._frames"

OwnMap == "newTree._frames"

MapEntries(ref) == IF ref = FramesMap THEN frames ELSE <<>>

NoClone == [made |-> FALSE]

\* TransformTree.Clone(tree)
Clone(tree) ==
    LET newTree == [_frames |-> OwnMap]
    IN  [newTree EXCEPT !._frames = tree._frames]

\* the frames and objects reached through a TransformTree object
TreeOf(t) == [frames |-> MapEntries(t._frames), heap |-> objs]

RECURSIVE CountSamples(_)
CountSamples(heap) ==
    IF heap = <<>> THEN 0
    ELSE Len(Head(heap).transforms) + CountSamples(Tail(heap))

Poses == {MakePose, [position |-> Vec(1, 1, 0), orientation |-> 1]}

QueryTimes == {1000, 2000}

MaxDeltas == {0}

\* times off the recorded range, and extrapolation limits that do and do
\* not cover the distance to the nearest stamp
LookupTimes == {0, 1000, 3000}

Extrapolations == {0, 1000}

Init ==
    /\ frames = <<>>
    /\ objs = <<>>
    /\ coordinateFrameRenderables = <<>>
    /\ emitted = 0
    /\ seen = {}
    /\ call = NoCall
    /\ clone = NoClone
    /\ snapshot = NoClone
    /\ panel = [mounted |-> FALSE, canvas |-> NoValue, renderer |-> FALSE,
                topics |-> NoValue, messages |-> NoValue, currentTime |-> NoValue,
                renderDone |-> NoValue, rendererCurrentTime |-> NoValue,
                queue |-> <<>>]
    /\ materials = <<>>
    /\ cacheLog = [creates |-> 0, disposed |-> <<>>,
                   acquires |-> [id \in MaterialIds |-> 0],
                   releases |-> [id \in MaterialIds |-> 0],
                   last |-> [op |-> "none"]]
    /\ markers = [renderables |-> <<>>, children |-> <<>>, heap |-> <<>>,
                  gltfMeshes |-> <<>>, scenes |-> <<>>, topicErrors |-> {}]
    /\ loads = <<>>
    /\ markerLog = [latest |-> <<>>, last |-> [op |-> "none"]]
    /\ startClientPos = NoValue
    /\ cursorCoords = Vector2(0, 0)
    /\ inputLog = [pressed |-> NoValue, last |-> [op |-> "none"]]
    /\ pending = {}
    /\ host = [onRender |-> FALSE, watched |-> {}, subscribed |-> NoValue,
               tick |-> 0, awaiting |-> FALSE, log |-> <<>>,
               frameTFs |-> {}, owed |-> {}, ingested |-> {}]

\* renderer.addTransformMessage(tf), for a message drawn from msgs
AddTransformMessage(msgs) ==
    /\ call = NoCall
    /\ \E tf \in msgs :
        LET after == addTransformMessage(Tree, coordinateFrameRenderables, tf)
        IN  /\ CountSamples(after.tree.heap) <= MaxSamples
            /\ frames' = after.tree.frames
            /\ objs' = after.tree.heap
            /\ coordinateFrameRenderables' = after.renderables
            /\ emitted' = emitted + after.emits
            /\ seen' = seen \cup {tf.header.frame_id, tf.child_frame_id}
            /\ call' = [op |-> "addTransformMessage", tf |-> tf]
    /\ UNCHANGED others

\* transformTree.apply(output, input, frameId, rootFrameId, srcFrameId,
\*                     dstTime, srcTime, maxDelta)
ApplyCall ==
    /\ call = NoCall
    /\ \E input \in Poses, frameId \in FrameIds, srcFrameId \in FrameIds,
          rootFrameId \in FrameIds \cup {UndefinedId},
          dstTime \in QueryTimes, srcTime \in QueryTimes, maxDelta \in MaxDeltas :
            LET after == apply(Tree, input, frameId, rootFrameId, srcFrameId,
                               dstTime, srcTime, maxDelta)
            IN  /\ call' =
                      [op |-> "apply", input |-> input, frameId |-> frameId,
                       rootFrameId |-> rootFrameId, srcFrameId |-> srcFrameId,
                       dstTime |-> dstTime, srcTime |-> srcTime,
                       maxDelta |-> maxDelta, result |-> after.result]
                /\ frames' = after.tree.frames
                /\ objs' = after.tree.heap
    /\ UNCHANGED <<coordinateFrameRenderables, emitted, seen, others>>

\* The upward walks of apply, one parent reference per step: frame.root()
\* (fixed = Undefined) and the path resolution from a frame up to the
\* fixed frame.  A walk starts with as many steps to spend as there are
\* frames.
WalkEnds_Unbounded(heap, at, fixed, fuel) ==
    at = fixed \/ heap[at].parent = Undefined

WalkEnds(heap, at, fixed, fuel) ==
    at = fixed \/ heap[at].parent = Undefined \/ fuel = 0

WalkCall ==
    /\ call = NoCall
    /\ \E start \in 1..Len(objs), fixed \in 0..Len(objs) :
        call' = [op |-> "walk", start |-> start, at |-> start, fixed |-> fixed,
                 fuel |-> Len(objs)]
    /\ UNCHANGED <<frames, objs, coordinateFrameRenderables, emitted, seen, others>>

WalkStep ==
    /\ call.op = "walk"
    /\ ~WalkEnds(objs, call.at, call.fixed, call.fuel)
    /\ call' = [call EXCEPT !.at = objs[call.at].parent,
                            !.fuel = IF @ > 0 THEN @ - 1 ELSE 0]
    /\ UNCHANGED <<frames, objs, coordinateFrameRenderables, emitted, seen, others>>

\* renderer.addTransformMessage(tf) up to the point where
\* transformTree.addTransform has looked up, created and re-parented the
\* frames and has not yet stored the sample
AddTransformMessageBegin(msgs) ==
    /\ call = NoCall
    /\ \E tf \in msgs :
        LET whole == addTransformMessage(Tree, coordinateFrameRenderables, tf)
            part  == addTransform_frames(Tree, tf.child_frame_id, tf.header.frame_id)
        IN  /\ CountSamples(whole.tree.heap) <= MaxSamples
            /\ frames' = part.tree.frames
            /\ objs' = part.tree.heap
            /\ coordinateFrameRenderables' = whole.renderables
            /\ seen' = seen \cup {tf.header.frame_id, tf.child_frame_id}
            /\ call' = [op |-> "addTransform", pc |-> "insert", tf |-> tf,
                        ref |-> part.ref, frameAdded |-> whole.emits = 1,
                        whole |-> whole]
    /\ UNCHANGED <<emitted, others>>

\* the rest of it: frame.addTransform(time, transform), then the event
AddTransformMessageEnd ==
    /\ call.op = "addTransform"
    /\ call.pc = "insert"
    /\ objs' = CoordinateFrame_addTransform(
                   objs, call.ref, rosTimeToNanoSec(call.tf.header.stamp),
                   NewTransform(call.tf.transform.translation,
                                call.tf.transform.rotation))
    /\ emitted' = emitted + (IF call.frameAdded THEN 1 ELSE 0)
    /\ call' = [call EXCEPT !.pc = "done"]
    /\ UNCHANGED <<frames, coordinateFrameRenderables, seen, others>>

\* The browser starts a requestAnimationFrame callback only from its event
\* loop, when no handler is running.
AnimationFrameMayRun_Preempts == call.op \in {"none", "addTransform"}

AnimationFrameMayRun == call = NoCall

\* animationFrame with a current time set: frameHandler(currentTime)
FrameHandler ==
    /\ AnimationFrameMayRun
    /\ \E currentTime \in QueryTimes, maxDelta \in MaxDeltas :
        /\ coordinateFrameRenderables' =
              frameHandler(Tree, coordinateFrameRenderables, currentTime, maxDelta)
        /\ call' = [op |-> "frameHandler", currentTime |-> currentTime,
                    maxDelta |-> maxDelta, fixedFrameId |-> fixedFrameIdOf(Tree)]
    /\ UNCHANGED <<frames, objs, emitted, seen, others>>

\* a consumer takes TransformTree.Clone(renderer.transformTree), once
CloneCall ==
    /\ call = NoCall
    /\ clone = NoClone
    /\ clone' = [made |-> TRUE, tree |-> Clone([_frames |-> FramesMap])]
    /\ snapshot' = Tree
    /\ call' = [op |-> "Clone"]
    /\ UNCHANGED <<frames, objs, coordinateFrameRenderables, emitted, seen, panel, pending, host,
                   components>>

\* The panel in its host.  The host calls onRender with a render state
\* whose topics are undefined, the array it passed last, or a new array,
\* and whose currentFrame is undefined or a new array of message events.
World ==
    [panel |-> [k \in DOMAIN panel \cup {"pending"} |->
                    IF k = "pending" THEN pending ELSE panel[k]],
     host |-> host, frames |-> frames, heap |-> objs,
     renderables |-> coordinateFrameRenderables, emitted |-> emitted, seen |-> seen]

Becomes(w) ==
    /\ panel' = [k \in DOMAIN panel |-> w.panel[k]]
    /\ pending' = w.panel.pending
    /\ host' = w.host
    /\ frames' = w.frames
    /\ objs' = w.heap
    /\ coordinateFrameRenderables' = w.renderables
    /\ emitted' = w.emitted
    /\ seen' = w.seen

RenderStates(topicLists, currentFrames) ==
    [topics : {NoValue, panel.topics}
                \cup {[ref |-> IF panel.topics = NoValue THEN 0 ELSE 1 - panel.topics.ref,
                       items |-> t] : t \in topicLists},
     currentFrame : {NoValue}
                \cup {[ref |-> 1 - host.tick, items |-> f] : f \in currentFrames}]

\* the datatypes of transform topics, written out
TFMessageDatatypes ==
    { <<"tf", "/", "tfMessage">>, <<"tf", "/", "msg", "/", "tfMessage">>,
      <<"ros", ".", "tf", ".", "tfMessage">>,
      <<"tf2_msgs", "/", "TFMessage">>, <<"tf2_msgs", "/", "msg", "/", "TFMessage">>,
      <<"ros", ".", "tf2_msgs", ".", "TFMessage">> }

TransformStampedDatatypes ==
    { <<"geometry_msgs", "/", "TransformStamped">>,
      <<"geometry_msgs", "/", "msg", "/", "TransformStamped">>,
      <<"ros", ".", "geometry_msgs", ".", "TransformStamped">> }

\* the transforms carried by the messages of a frame whose topic has a
\* transform datatype in the topics
TransformsOn(currentFrame, topics) ==
    IF currentFrame = NoValue \/ topics = NoValue THEN {}
    ELSE UNION {
            LET m  == currentFrame.items[i]
                at == {k \in 1..Len(topics.items) : topics.items[k].name = m.topic}
                dt == IF at = {} THEN <<>>
                      ELSE topics.items[CHOOSE k \in at : \A j \in at : j <= k].datatype
            IN  IF dt \in TFMessageDatatypes THEN Range(m.message.transforms)
                ELSE IF dt \in TransformStampedDatatypes THEN {m.message}
                ELSE {}
            : i \in 1..Len(currentFrame.items)}

\* the host notes the render state it is about to pass and its done
Deliver(w, renderState) ==
    [w EXCEPT !.host.tick = 1 - @,
              !.host.awaiting = TRUE,
              !.host.log = <<>>,
              !.host.frameTFs = TransformsOn(renderState.currentFrame, renderState.topics),
              !.host.owed = @ \cup TransformsOn(renderState.currentFrame, renderState.topics)]

\* initThreeDeePanel(context).  The host may call onRender from within
\* context.watch, when the component has rendered once, without a canvas
\* and without a renderer.
Mount(topicLists, currentFrames) ==
    /\ call = NoCall
    /\ ~panel.mounted
    /\ \/ \E after \in {render(mount(World))} : Becomes(after)
       \/ \E renderState \in RenderStates(topicLists, currentFrames) :
            \E after \in {render(onRenderSets(Deliver(mount(World), renderState),
                                              renderState, [done |-> 1 - host.tick],
                                              TRUE, FALSE))} :
                Becomes(after)
    /\ UNCHANGED <<call, clone, snapshot, components>>

\* the host calls context.onRender(renderState, done)
OnRender(topicLists, currentFrames) ==
    /\ call = NoCall
    /\ panel.mounted
    /\ ~host.awaiting
    /\ \E renderState \in RenderStates(topicLists, currentFrames),
          batched \in BOOLEAN, eager \in BOOLEAN :
            \E after \in {onRender(Deliver(World, renderState), renderState,
                                    [done |-> 1 - host.tick], batched, eager)} :
                Becomes(after)
    /\ UNCHANGED <<call, clone, snapshot, components>>

\* React runs the effects of the last commit
FlushEffects ==
    /\ call = NoCall
    /\ pending # {}
    /\ pending' = {}
    /\ \E after \in {flushEffects(World)} : Becomes(after)
    /\ UNCHANGED <<call, clone, snapshot, components>>

\* materialCache.acquire(id, create, dispose).  The history counts the
\* acquire and release calls for an id since its material was created.
Acquire ==
    \E id \in MaterialIds, dispose \in Disposers :
        LET after == acquire(materials, id, cacheLog.creates + 1, dispose)
        IN  /\ cacheLog.creates + after.creates <= MaxMaterials
            /\ MapHas(materials, id) => /\ MapGet(materials, id).refCount < MaxRefs
                                        /\ cacheLog.acquires[id] < MaxAcquires
            /\ materials' = after.materials
            /\ cacheLog' =
                 [cacheLog EXCEPT
                    !.creates = @ + after.creates,
                    !.acquires[id] = IF after.creates = 1 THEN 1 ELSE @ + 1,
                    !.releases[id] = IF after.creates = 1 THEN 0 ELSE @,
                    !.last = [op |-> "acquire", id |-> id, result |-> after.result,
                              cached |-> MapHas(materials, id)]]
            /\ UNCHANGED <<core, markerVars, inputVars>>

\* materialCache.release(id)
Release ==
    \E id \in MaterialIds :
        LET after == release(materials, id)
        IN  /\ materials' = after.materials
            /\ cacheLog' =
                 [cacheLog EXCEPT
                    !.disposed = @ \o after.disposed,
                    !.releases[id] = IF MapHas(materials, id) THEN @ + 1 ELSE @,
                    !.last = [op |-> "release", id |-> id, result |-> after.result,
                              cached |-> MapHas(materials, id)]]
            /\ UNCHANGED <<core, markerVars, inputVars>>

\* The marker messages: a cube, a label and a mesh, at either stamp,
\* frame_locked or not, in no namespace and in one whose name has a space;
\* and a cube in the namespace whose name has an underscore in its place.
MarkerTopics == {<<"/markers">>}

MarkerPose == [position |-> Vec(0, 1, 0), orientation |-> 0]

MarkerTypes == {"CUBE", "TEXT_VIEW_FACING", "MESH_RESOURCE"}

MarkerNamespaces == {<<>>, <<"arm", " ", "left">>}

MarkerNumber == 7

MeshResource == <<"package://", "arm", ".", "glb">>

Marker(ns, stamp, type, frame_locked) ==
    [header |-> [frame_id |-> "sensor", stamp |-> stamp], ns |-> ns, id |-> MarkerNumber,
     type |-> type, pose |-> MarkerPose, frame_locked |-> frame_locked,
     text |-> IF type = "TEXT_VIEW_FACING" THEN <<"label">> ELSE <<>>,
     mesh_resource |-> MeshResource]

Markers ==
    {Marker(ns, stamp, type, frame_locked) :
        ns \in MarkerNamespaces, stamp \in Stamps, type \in MarkerTypes,
        frame_locked \in BOOLEAN}
    \cup {Marker(<<"arm", "_", "left">>, [sec |-> 0, nsec |-> 1000], "CUBE", FALSE)}

\* the messages of the first stamp that are not frame_locked
MeshMarkers == {m \in Markers : ~m.frame_locked /\ m.header.stamp.nsec = 1000}

\* the cubes in the namespaces of MarkerNamespaces, and a label
FrameMarkers ==
    {m \in Markers : m.type = "CUBE" /\ m.ns \in MarkerNamespaces}
    \cup {Marker(<<>>, [sec |-> 0, nsec |-> 1000], "TEXT_VIEW_FACING", FALSE)}

\* An Object3D that nothing refers to any more is reclaimed: the heap
\* keeps the renderables of the map, the outputs of the pending loads and
\* the parents of the loaded scenes.
Collected == [name |-> <<>>]

collect(m, pendingLoads) ==
    LET live == {m.renderables[i].value : i \in 1..Len(m.renderables)}
                \cup {pendingLoads[i].output : i \in 1..Len(pendingLoads)}
                \cup {m.scenes[g].parent : g \in 1..Len(m.scenes)}
    IN  [m EXCEPT !.heap = [r \in 1..Len(m.heap) |->
                              IF r \in live THEN m.heap[r] ELSE Collected]]

\* the Object3Ds addMarkerMessage makes, and the mesh loads pending at a time
MaxRenderables == 3

MaxPendingLoads == 2

\* markers.addMarkerMessage(topic, marker)
AddMarkerMessage(msgs) ==
    /\ call = NoCall
    /\ \E topic \in MarkerTopics, marker \in msgs :
         \E after \in {addMarkerMessage(markers, topic, marker)} :
            /\ Len(after.markers.heap) <= MaxRenderables
            /\ after.load # NoLoad => Len(loads) < MaxPendingLoads
            /\ loads' = IF after.load # NoLoad THEN Append(loads, after.load) ELSE loads
            /\ markers' = collect(after.markers, loads')
            /\ markerLog' =
                 [latest |-> MapSet(markerLog.latest,
                                    getMarkerId(topic, marker.ns, marker.id), marker),
                  last   |-> [op |-> "addMarkerMessage",
                              markerId |-> getMarkerId(topic, marker.ns, marker.id),
                              found |-> MapHas(markers.renderables,
                                               getMarkerId(topic, marker.ns, marker.id))]]
    /\ UNCHANGED <<core, cacheVars, inputVars>>

\* markers.removeMarkerMessage(topic, ns, id)
RemoveMarkerMessage ==
    /\ call = NoCall
    /\ \E topic \in MarkerTopics, ns \in MarkerNamespaces :
         /\ markers' = collect(removeMarkerMessage(markers, topic, ns, MarkerNumber), loads)
         /\ markerLog' =
              [latest |-> MapDelete(markerLog.latest, getMarkerId(topic, ns, MarkerNumber)),
               last   |-> [op |-> "removeMarkerMessage",
                           markerId |-> getMarkerId(topic, ns, MarkerNumber),
                           found |-> MapHas(markers.renderables,
                                            getMarkerId(topic, ns, MarkerNumber))]]
    /\ UNCHANGED <<core, cacheVars, loads, inputVars>>

\* animationFrame with a current time set: frameHandler(currentTime) takes
\* the first key of the frame map as fixedFrameId and renderFrameId and
\* calls markers.startFrame(currentTime)
StartFrame ==
    /\ call = NoCall
    /\ \E currentTime \in QueryTimes, maxDelta \in MaxDeltas :
         \E after \in {startFrame(markers, Tree, fixedFrameIdOf(Tree), fixedFrameIdOf(Tree),
                                  currentTime, maxDelta)} :
            /\ markers' = after.markers
            /\ markerLog' =
                 [markerLog EXCEPT
                    !.last = [op |-> "startFrame", currentTime |-> currentTime,
                              passed |-> after.passed, labels |-> after.labels]]
    /\ UNCHANGED <<core, cacheVars, loads, inputVars>>

\* a promise of gltfLoader.loadAsync resolves, and _createMeshResource
\* goes on after its await
LoadResolved ==
    /\ call = NoCall
    /\ \E i \in 1..Len(loads) :
         /\ loads' = [j \in 1..(Len(loads) - 1) |-> IF j < i THEN loads[j] ELSE loads[j + 1]]
         /\ markers' = collect(_createMeshResource_resolved(markers, loads[i]), loads')
         /\ markerLog' = [markerLog EXCEPT
                            !.last = [op |-> "loadResolved", output |-> loads[i].output]]
    /\ UNCHANGED <<core, cacheVars, inputVars>>

\* a promise of gltfLoader.loadAsync rejects, and _createMeshResource
\* goes on in its catch block
LoadRejected ==
    /\ call = NoCall
    /\ \E i \in 1..Len(loads) :
         /\ loads' = [j \in 1..(Len(loads) - 1) |-> IF j < i THEN loads[j] ELSE loads[j + 1]]
         /\ markers' = collect(_createMeshResource_rejected(markers, loads[i]), loads')
         /\ markerLog' = [markerLog EXCEPT
                            !.last = [op |-> "loadRejected", output |-> loads[i].output]]
    /\ UNCHANGED <<core, cacheVars, inputVars>>

\* The Input object and the events its canvas dispatches to it.
Input == [startClientPos |-> startClientPos, cursorCoords |-> cursorCoords]

MouseEvents == {[clientX |-> p.x, clientY |-> p.y] : p \in ClientPositions}

TouchEvents ==
    {[touches |-> <<>>]} \cup {[touches |-> <<[clientX |-> p.x, clientY |-> p.y]>>] :
                                  p \in ClientPositions}

\* the handler ran: the Input it leaves, and the history of the presses
\* since the last onClick
Dispatched(op, event, after, pressed) ==
    /\ startClientPos' = after.startClientPos
    /\ cursorCoords' = after.cursorCoords
    /\ inputLog' = [pressed |-> pressed,
                    last    |-> [op |-> op, event |-> event, emitted |-> after.emitted]]
    /\ UNCHANGED <<core, cacheVars, markerVars>>

\* canvas mousedown
OnMouseDown ==
    \E event \in MouseEvents :
        Dispatched("mousedown", event, onMouseDown(Input, event),
                Vector2(event.clientX, event.clientY))

\* canvas mousemove
OnMouseMove ==
    \E event \in MouseEvents :
        Dispatched("mousemove", event, onMouseMove(Input, event), inputLog.pressed)

\* canvas click
OnClick ==
    \E event \in MouseEvents :
        Dispatched("click", event, onClick(Input, event), NoValue)

\* canvas touchstart
OnTouchStart ==
    \E event \in TouchEvents :
        Dispatched("touchstart", event, onTouchStart(Input, event),
                IF Len(event.touches) > 0
                THEN Vector2(event.touches[1].clientX, event.touches[1].clientY)
                ELSE inputLog.pressed)

\* the operation returns to its caller
Return ==
    /\ call # NoCall
    /\ call.op = "walk" => WalkEnds(objs, call.at, call.fixed, call.fuel)
    /\ call.op = "addTransform" => call.pc = "done"
    /\ call' = NoCall
    /\ UNCHANGED <<frames, objs, coordinateFrameRenderables, emitted, seen, others>>

\* Message ingestion alone.
Next ==
    \/ AddTransformMessage(TFs)
    \/ Return

Spec == Init /\ [][Next]_vars

\* Message ingestion and pose queries.  The trees queried are built from
\* the messages that carry the first stamp.
FirstStampTFs == {tf \in TFs : tf.header.stamp.nsec = 1000}

NextApply ==
    \/ AddTransformMessage(FirstStampTFs)
    \/ ApplyCall
    \/ Return

SpecApply == Init /\ [][NextApply]_vars

\* Message ingestion and sample lookups outside the recorded range.  The
\* trees hold the frames sensor and base, with samples at either stamp;
\* the lookups ask for a time before the first stamp and for one after
\* the last, with an extrapolation limit that does or does not cover the
\* distance.
LookupTFs ==
    {tf \in TFs : tf.header.frame_id # "world" /\ tf.child_frame_id # "world"}

\* frame.sampleAt(time, maxDelta) on a registered frame
SampleAtCall ==
    /\ call = NoCall
    /\ \E frameId \in FrameIds, time \in LookupTimes, maxDelta \in Extrapolations :
        /\ hasFrame(Tree, frameId)
        /\ call' = [op |-> "sampleAt", frameId |-> frameId, time |-> time,
                    maxDelta |-> maxDelta,
                    result |-> SampleAt(objs[frame(Tree, frameId)].transforms,
                                        time, maxDelta)]
    /\ UNCHANGED <<frames, objs, coordinateFrameRenderables, emitted, seen, others>>

\* transformTree.apply with a source time off the recorded range
ApplyAtCall ==
    /\ call = NoCall
    /\ \E frameId \in FrameIds \ {"world"}, srcFrameId \in FrameIds \ {"world"},
          rootFrameId \in {UndefinedId, "sensor", "base"},
          srcTime \in LookupTimes, maxDelta \in Extrapolations :
            LET after == apply(Tree, MakePose, frameId, rootFrameId, srcFrameId,
                               1000, srcTime, maxDelta)
            IN  /\ call' =
                      [op |-> "apply", input |-> MakePose, frameId |-> frameId,
                       rootFrameId |-> rootFrameId, srcFrameId |-> srcFrameId,
                       dstTime |-> 1000, srcTime |-> srcTime,
                       maxDelta |-> maxDelta, result |-> after.result]
                /\ frames' = after.tree.frames
                /\ objs' = after.tree.heap
    /\ UNCHANGED <<coordinateFrameRenderables, emitted, seen, others>>

NextLookup ==
    \/ AddTransformMessage(LookupTFs)
    \/ SampleAtCall
    \/ ApplyAtCall
    \/ Return

SpecLookup == Init /\ [][NextLookup]_vars

\* Message ingestion and the walks of apply.  A walk that can take a
\* step takes it: the loop runs inside one call of apply.
NextWalk ==
    \/ AddTransformMessage(FirstStampTFs)
    \/ WalkCall
    \/ WalkStep
    \/ Return

SpecWalk == Init /\ [][NextWalk]_vars /\ WF_vars(WalkStep)

\* Message ingestion with a consumer that holds a clone of the tree.
NextClone ==
    \/ AddTransformMessage(FirstStampTFs)
    \/ CloneCall
    \/ Return

SpecClone == Init /\ [][NextClone]_vars

\* Message ingestion, in its two steps, and animation frames.  The
\* messages carry the first stamp and the first translation; the frames
\* are rendered at that stamp and at the next.
FrameTFs == {tf \in FirstStampTFs : tf.transform.translation = Vec(1, 0, 0)}

NextFrames ==
    \/ AddTransformMessageBegin(FrameTFs)
    \/ AddTransformMessageEnd
    \/ FrameHandler
    \/ Return

SpecFrames == Init /\ [][NextFrames]_vars

\* The panel receiving transform messages.  tfA and tfB are the two
\* transforms of the end-to-end scenario; tfC travels only on a topic
\* that is no transform topic.
tfA ==
    [header |-> [frame_id |-> "base", stamp |-> [sec |-> 0, nsec |-> 1000]],
     child_frame_id |-> "sensor",
     transform |-> [translation |-> Vec(1, 0, 0), rotation |-> 0]]

tfB ==
    [header |-> [frame_id |-> "world", stamp |-> [sec |-> 0, nsec |-> 1000]],
     child_frame_id |-> "base",
     transform |-> [translation |-> Vec(0, 2, 0), rotation |-> 0]]

tfC ==
    [header |-> [frame_id |-> "sensor", stamp |-> [sec |-> 0, nsec |-> 1000]],
     child_frame_id |-> "world",
     transform |-> [translation |-> Vec(0, 2, 0), rotation |-> 0]]

MessageEvent(topic, nsec, message) ==
    [topic |-> topic, receiveTime |-> [sec |-> 0, nsec |-> nsec], message |-> message]

PanelFrames ==
    { <<>>,
      <<MessageEvent("/tf", 1000, [transforms |-> <<tfA, tfB>>])>>,
      <<MessageEvent("/ts", 2000, tfA)>>,
      <<MessageEvent("/other", 1000, [transforms |-> <<tfC>>]),
        MessageEvent("/tf", 2000, [transforms |-> <<tfB>>])>> }

Topic(name, datatype) == [name |-> name, datatype |-> datatype]

PanelTopicLists ==
    {       <<Topic("/tf", <<"tf2_msgs", "/", "TFMessage">>)>>,
      <<Topic("/tf", <<"ros", ".", "tf", ".", "tfMessage">>),
        Topic("/ts", <<"geometry_msgs", "/", "msg", "/", "TransformStamped">>)>>,
      <<Topic("/other", <<"visualization_msgs", "/", "Marker">>),
        Topic("/ts", <<"geometry_msgs", "/", "TransformStamped">>)>> }

NextPanel ==
    \/ Mount(PanelTopicLists, PanelFrames)
    \/ OnRender(PanelTopicLists, PanelFrames)
    \/ FlushEffects

\* React runs pending effects in a task of its own if no render comes
\* first: weak fairness of FlushEffects.  WF_vars(FlushEffects) is
\* []<>~ENABLED <<FlushEffects>>_vars \/ []<><<FlushEffects>>_vars, and a
\* FlushEffects step leaves no effect pending, so that the second
\* disjunct implies the first.
FlushEffectsFair == []<>(~ENABLED <<FlushEffects>>_vars)

SpecPanel == Init /\ [][NextPanel]_vars /\ FlushEffectsFair

\* The panel receiving topic lists: up to two topics, of the transform
\* datatypes and of datatypes that are none.
OtherDatatypes ==
    { <<"visualization_msgs", "/", "Marker">>,
      <<"ros", "/", "tf2_msgs", "/", "TFMessage">>,
      <<"tf2_msgs", ".", "TFMessage">>,
      <<"geometry_msgs", "/", "msg", "/", "Transform">>,
      <<"TFMessage">> }

Datatypes == TFMessageDatatypes \cup TransformStampedDatatypes \cup OtherDatatypes

TopicLists ==
    {<<>>} \cup {<<Topic("/a", d)>> : d \in Datatypes}
           \cup {<<Topic("/a", d), Topic(n, e)>> :
                    d \in {<<"tf", "/", "tfMessage">>, <<"TFMessage">>},
                    e \in Datatypes, n \in {"/a", "/b"}}

NextTopics ==
    \/ Mount(TopicLists, {})
    \/ OnRender(TopicLists, {})
    \/ FlushEffects

SpecTopics == Init /\ [][NextTopics]_vars /\ FlushEffectsFair

\* The material cache under acquire and release calls.
NextMaterials ==
    \/ Acquire
    \/ Release

SpecMaterials == Init /\ [][NextMaterials]_vars

\* Marker messages and mesh loads.  The messages are not frame_locked.
NextMarkers ==
    \/ AddMarkerMessage(MeshMarkers)
    \/ RemoveMarkerMessage
    \/ LoadResolved
    \/ LoadRejected

SpecMarkers == Init /\ [][NextMarkers]_vars

\* Marker messages and animation frames, over a transform tree that
\* receives the transform from base to sensor at the first stamp.  The
\* markers are cubes and a label.
MarkerTFs == {tf \in FrameTFs : tf.child_frame_id = "sensor" /\ tf.header.frame_id = "base"}

NextMarkerFrames ==
    \/ AddTransformMessage(MarkerTFs)
    \/ Return
    \/ AddMarkerMessage(FrameMarkers)
    \/ RemoveMarkerMessage
    \/ StartFrame

SpecMarkerFrames == Init /\ [][NextMarkerFrames]_vars

\* The Input object under mouse and touch events.
NextInput ==
    \/ OnMouseDown
    \/ OnMouseMove
    \/ OnClick
    \/ OnTouchStart

SpecInput == Init /\ [][NextInput]_vars

----------------------------------------------------------------------------
(* Properties of frame registration and re-parenting, stated for Spec *)

Refs == 1..Len(objs)

Child(tf) == tf.child_frame_id

Parent(tf) == tf.header.frame_id

\* the sample a message stores
SampleOf(tf) ==
    [time |-> tf.header.stamp.sec * 1000000000 + tf.header.stamp.nsec,
     transform |-> [t |-> tf.transform.translation, r |-> tf.transform.rotation]]

HasSample(heap, ref, s) ==
    \E i \in 1..Len(heap[ref].transforms) : heap[ref].transforms[i] = s

RegisteredAsSeen ==
    \A id \in FrameIds :
        /\ hasFrame(Tree, id) <=> frame(Tree, id) # Undefined
        /\ hasFrame(Tree, id) <=> id \in seen
        /\ hasFrame(Tree, id) => objs[frame(Tree, id)].id = id

FramesKept ==
    \A id \in FrameIds :
        hasFrame(Tree, id) =>
            /\ frame(Tree, id)' = frame(Tree, id)
            /\ objs'[frame(Tree, id)].id = id

\* C1: after any sequence of addTransform calls, hasFrame(name) is true
\* exactly when frame(name) returns a frame and exactly for the names
\* that were the child or the parent of an earlier call, and a
\* registered name keeps the frame object it was registered with.
C1_FramesAccrete == [](RegisteredAsSeen) /\ [][FramesKept]_vars

\* two names registered by calls, the third never named
C1_Witness ==
    /\ hasFrame(Tree, "sensor") /\ hasFrame(Tree, "base") /\ ~hasFrame(Tree, "world")
    /\ seen = {"sensor", "base"}
    /\ CountSamples(objs) = 2

\* what addTransform(child, parent, t, T) has done to the parent
\* references and to the child's samples
AddTransformPost(tf) ==
    LET old == frame(Tree, Child(tf))
        c   == frame(Tree, Child(tf))'
        p   == frame(Tree, Parent(tf))'
    IN  /\ c # Undefined /\ p # Undefined
        /\ objs'[p].id = Parent(tf)
        /\ objs'[c].parent = p
        /\ (old # Undefined /\ objs[old].parent # Undefined
              /\ objs[objs[old].parent].id = Parent(tf))
           => objs'[c].parent = objs[old].parent
        /\ HasSample(objs', c, SampleOf(tf))
        /\ \A r \in Refs : r # old => objs'[r].parent = objs[r].parent
        /\ \A r \in 1..Len(objs') : (r \notin Refs /\ r # c) => objs'[r].parent = Undefined

\* C2: immediately after addTransform(child, parent, t, T) the child's
\* parent is the registered frame named parent (the same object as
\* before if it already named parent), the sample (t, T) is among the
\* child's samples, and no other frame's parent reference has changed.
C2_AddTransformEffect ==
    [][\A tf \in TFs :
         (call'.op = "addTransformMessage" /\ call'.tf = tf) => AddTransformPost(tf)]_vars

\* sensor has just been re-parented: base holds no sample, so it was
\* never a child and was registered as sensor's parent; world is the
\* parent now
C2_Witness ==
    /\ call.op = "addTransformMessage"
    /\ Child(call.tf) = "sensor" /\ Parent(call.tf) = "world"
    /\ hasFrame(Tree, "sensor") /\ hasFrame(Tree, "base") /\ hasFrame(Tree, "world")
    /\ objs[frame(Tree, "sensor")].parent = frame(Tree, "world")
    /\ objs[frame(Tree, "base")].transforms = <<>>
    /\ objs[frame(Tree, "world")].transforms = <<>>
    /\ Len(objs[frame(Tree, "sensor")].transforms) = 2

\* the frame reached from ref by n parent references (Undefined if the
\* chain ends earlier)
RECURSIVE Ancestor(_, _, _)
Ancestor(heap, ref, n) ==
    IF n = 0 \/ ref = Undefined THEN ref
    ELSE Ancestor(heap, heap[ref].parent, n - 1)

\* C3: the parent relation over the registered frames has no cycle:
\* following parent references from any frame reaches a frame with no
\* parent.
C3_NoCycle ==
    \A r \in Refs : \E n \in 0..Len(objs) :
        /\ Ancestor(objs, r, n) # Undefined
        /\ objs[Ancestor(objs, r, n)].parent = Undefined

\* C4: the parent reference of every frame in the frame map is absent or
\* is a frame object stored in that map under its own id.
C4_ParentsRegistered ==
    \A i \in 1..Len(frames) :
        LET p == objs[frames[i].value].parent
        IN  p # Undefined => (hasFrame(Tree, objs[p].id) /\ frame(Tree, objs[p].id) = p)

\* a chain of two registered parents
C4_Witness ==
    /\ hasFrame(Tree, "sensor") /\ hasFrame(Tree, "base") /\ hasFrame(Tree, "world")
    /\ objs[frame(Tree, "sensor")].parent = frame(Tree, "base")
    /\ objs[frame(Tree, "base")].parent = frame(Tree, "world")

\* C5: addTransformMessage emits transformTreeUpdated once when the
\* parent frame id or the child frame id was not registered before the
\* call, and emits nothing when both were registered.
C5_NewFrameEvent ==
    [][\A tf \in TFs :
         (call'.op = "addTransformMessage" /\ call'.tf = tf) =>
            emitted' - emitted =
                IF ~hasFrame(Tree, Parent(tf)) \/ ~hasFrame(Tree, Child(tf))
                THEN 1 ELSE 0]_vars

\* two calls stored two samples; the first registered both frames and
\* emitted, the second has just run and emitted nothing
C5_Witness ==
    /\ call.op = "addTransformMessage"
    /\ emitted = 1
    /\ CountSamples(objs) = 2
    /\ Len(frames) = 2

----------------------------------------------------------------------------
(* Properties of pose queries, stated for SpecApply *)

Applying == call.op = "apply"

\* ref is reached from start by zero or more parent references
Reaches(heap, start, ref) ==
    \E n \in 0..Len(heap) : Ancestor(heap, start, n) = ref

\* the parentless frame reached from start, Undefined if the parent
\* references from start run into a cycle
TopOf(heap, start) ==
    LET tops == {r \in 1..Len(heap) : Reaches(heap, start, r) /\ heap[r].parent = Undefined}
    IN  IF tops = {} THEN Undefined ELSE CHOOSE r \in tops : TRUE

UnregisteredEndpoint ==
    ~hasFrame(Tree, call.frameId) \/ ~hasFrame(Tree, call.srcFrameId)

\* C6: apply returns not found whenever the destination frame id or the
\* source frame id is not registered, and such a call changes neither
\* the frame map nor any frame's parent or samples.
C6_UnknownEndpointNotFound ==
    /\ []((Applying /\ UnregisteredEndpoint) => call.result = NotFound)
    /\ [][(call'.op = "apply" /\ call.op = "none") => UNCHANGED <<frames, objs>>]_vars

\* a query whose destination is registered and whose source is not has returned
C6_Witness ==
    /\ Applying
    /\ hasFrame(Tree, call.frameId)
    /\ ~hasFrame(Tree, call.srcFrameId)
    /\ call.result = NotFound

NamesUnregisteredFixed ==
    call.rootFrameId # UndefinedId /\ ~hasFrame(Tree, call.rootFrameId)

Requery(fixedId) ==
    apply(Tree, call.input, call.frameId, fixedId, call.srcFrameId,
          call.dstTime, call.srcTime, call.maxDelta).result

NamedFixedReached ==
    /\ hasFrame(Tree, call.rootFrameId)
    /\ Reaches(objs, frame(Tree, call.srcFrameId), frame(Tree, call.rootFrameId))
    /\ Reaches(objs, frame(Tree, call.frameId), frame(Tree, call.rootFrameId))

FixedFrameUsed ==
    IF call.rootFrameId # UndefinedId /\ hasFrame(Tree, call.rootFrameId)
    THEN frame(Tree, call.rootFrameId)
    ELSE TopOf(objs, frame(Tree, call.frameId))

C9_IdentityRoundTrip ==
    (/\ Applying
     /\ hasFrame(Tree, call.frameId)
     /\ call.srcFrameId = call.frameId
     /\ call.rootFrameId = call.frameId
     /\ call.dstTime = call.srcTime)
      => call.result = Found(call.input)

\* F has a parent and holds no sample at the query time; the pose
\* returned is the rotated input pose
C9_Witness ==
    /\ Applying
    /\ hasFrame(Tree, call.frameId)
    /\ call.srcFrameId = call.frameId
    /\ call.rootFrameId = call.frameId
    /\ call.dstTime = 2000 /\ call.srcTime = 2000
    /\ objs[frame(Tree, call.frameId)].parent # Undefined
    /\ objs[frame(Tree, call.frameId)].parent # frame(Tree, call.frameId)
    /\ call.input # MakePose
    /\ call.result = Found(call.input)

\* the transform of the sample ref holds at exactly time, if any
ExactSample(ref, time) ==
    {objs[ref].transforms[i].transform :
        i \in {j \in 1..Len(objs[ref].transforms) : objs[ref].transforms[j].time = time}}

\* C10: for a chain A -> B -> C whose links A->B and B->C hold the
\* pure translations T1 and T2 at time t, apply of the identity pose
\* from source A to destination C with fixed frame C at time t yields
\* position T1.translation + T2.translation and identity orientation.
C10_ChainComposes ==
    (/\ Applying
     /\ call.input = MakePose
     /\ call.rootFrameId = call.frameId
     /\ call.dstTime = call.srcTime
     /\ ~UnregisteredEndpoint)
      => LET a == frame(Tree, call.srcFrameId)
             c == frame(Tree, call.frameId)
             b == objs[a].parent
         IN  (/\ b # Undefined /\ b # a /\ b # c /\ a # c
              /\ objs[b].parent = c)
             => \A T1 \in ExactSample(a, call.srcTime), T2 \in ExactSample(b, call.srcTime) :
                  (T1.r = 0 /\ T2.r = 0)
                    => call.result =
                         Found([position |-> Vec(T1.t[1] + T2.t[1], T1.t[2] + T2.t[2],
                                                 T1.t[3] + T2.t[3]),
                                orientation |-> 0])

\* sensor -> base (1,0,0) and base -> world (0,2,0) at t = 1000 give (1,2,0)
C10_Witness ==
    /\ Applying
    /\ call.input = MakePose
    /\ call.frameId = "world" /\ call.rootFrameId = "world" /\ call.srcFrameId = "sensor"
    /\ call.dstTime = 1000 /\ call.srcTime = 1000
    /\ hasFrame(Tree, "sensor") /\ hasFrame(Tree, "base") /\ hasFrame(Tree, "world")
    /\ objs[frame(Tree, "sensor")].parent = frame(Tree, "base")
    /\ objs[frame(Tree, "base")].parent = frame(Tree, "world")
    /\ ExactSample(frame(Tree, "sensor"), 1000) = {[t |-> Vec(1, 0, 0), r |-> 0]}
    /\ ExactSample(frame(Tree, "base"), 1000) = {[t |-> Vec(0, 2, 0), r |-> 0]}
    /\ call.result = Found([position |-> Vec(1, 2, 0), orientation |-> 0])

----------------------------------------------------------------------------
(* Properties of sample lookups, stated for SpecLookup *)

Abs(x) == IF x < 0 THEN 0 - x ELSE x

SamplesOf(ref) == {objs[ref].transforms[i] : i \in 1..Len(objs[ref].transforms)}

\* time lies before the first or after the last sample of a frame that
\* holds samples
OutsideRange(ref, time) ==
    /\ SamplesOf(ref) # {}
    /\ \/ \A s \in SamplesOf(ref) : time < s.time
       \/ \A s \in SamplesOf(ref) : time > s.time

NearestSample(ref, time) ==
    CHOOSE s \in SamplesOf(ref) :
        \A o \in SamplesOf(ref) : Abs(time - s.time) <= Abs(time - o.time)

\* every sample of the frame is farther than maxDelta from time
AllSamplesFar(ref, time, maxDelta) ==
    \A s \in SamplesOf(ref) : Abs(time - s.time) > maxDelta

\* ref is a link of the walk from start up to fixed: it is reached from
\* start before fixed is
OnPath(start, fixed, ref) ==
    \E n \in 0..Len(objs) :
        /\ Ancestor(objs, start, n) = ref
        /\ \A m \in 0..n : Ancestor(objs, start, m) # fixed

C11_WitnessApply ==
    /\ Applying
    /\ call.srcFrameId = "sensor" /\ call.frameId = "base" /\ call.rootFrameId = "base"
    /\ call.srcTime = 3000 /\ call.maxDelta = 0
    /\ hasFrame(Tree, "sensor") /\ hasFrame(Tree, "base")
    /\ objs[frame(Tree, "sensor")].parent = frame(Tree, "base")
    /\ call.result = NotFound

----------------------------------------------------------------------------
(* Properties of a frame's samples under ingestion, stated for Spec *)

SamplesSorted ==
    \A r \in Refs :
        \A i, j \in 1..Len(objs[r].transforms) :
            i < j => objs[r].transforms[i].time < objs[r].transforms[j].time

\* the child of tf was registered and held a sample with tf's timestamp
HeldStamp(tf) ==
    /\ hasFrame(Tree, Child(tf))
    /\ \E s \in SamplesOf(frame(Tree, Child(tf))) : s.time = SampleOf(tf).time

\* C12: after any sequence of addTransform calls for a frame, with
\* timestamps arriving in any order, the frame's samples are in strictly
\* increasing timestamp order; adding a sample whose timestamp is already
\* present replaces that sample's transform and leaves the number of
\* samples unchanged.
C12_SortedOverwrite ==
    /\ [](SamplesSorted)
    /\ [][\A tf \in TFs :
            (call'.op = "addTransformMessage" /\ call'.tf = tf /\ HeldStamp(tf)) =>
                LET c == frame(Tree, Child(tf))
                IN  /\ Len(objs'[c].transforms) = Len(objs[c].transforms)
                    /\ HasSample(objs', c, SampleOf(tf))
                    /\ \A s \in SamplesOf(c) :
                          s.time # SampleOf(tf).time => HasSample(objs', c, s)]_vars

\* the sample of the first stamp was stored last, in front of the sample
\* of the second stamp, or over a sample of its own stamp
C12_Witness ==
    /\ call.op = "addTransformMessage"
    /\ call.tf.header.stamp.nsec = 1000
    /\ Len(objs[frame(Tree, Child(call.tf))].transforms) = 2
    /\ objs[frame(Tree, Child(call.tf))].transforms[1] = SampleOf(call.tf)
    /\ objs[frame(Tree, Child(call.tf))].transforms[2].time = 2000

\* tf names a parent other than the one its registered child has
Reparents(tf) ==
    /\ hasFrame(Tree, Child(tf))
    /\ objs[frame(Tree, Child(tf))].parent # Undefined
    /\ objs[objs[frame(Tree, Child(tf))].parent].id # Parent(tf)

LookupSame(before, after, time) ==
    \A maxDelta \in Extrapolations :
        SampleAt(after, time, maxDelta) = SampleAt(before, time, maxDelta)

\* C13 as stated: re-parenting a frame (addTransform naming a different
\* parent) leaves every previously recorded sample of that frame
\* unchanged: a lookup on the frame at the time of a sample recorded
\* before the re-parent returns the same transform after it as before.
C13_ReparentKeepsSamples ==
    [][\A tf \in TFs :
          (call'.op = "addTransformMessage" /\ call'.tf = tf /\ Reparents(tf)) =>
              LET c == frame(Tree, Child(tf))
              IN  \A s \in SamplesOf(c) :
                      LookupSame(objs[c].transforms, objs'[c].transforms, s.time)]_vars

\* C13 as amended: re-parenting a frame (addTransform naming a different
\* parent) leaves every previously recorded sample of that frame
\* unchanged except a sample recorded at the timestamp of the transform
\* being added, which that transform replaces: a lookup on the frame at
\* the time of any other sample recorded before the re-parent returns the
\* same transform after it as before.
C13_ReparentKeepsOtherSamples ==
    [][\A tf \in TFs :
          (call'.op = "addTransformMessage" /\ call'.tf = tf /\ Reparents(tf)) =>
              LET c == frame(Tree, Child(tf))
              IN  \A s \in SamplesOf(c) :
                      /\ s.time # SampleOf(tf).time =>
                            /\ HasSample(objs', c, s)
                            /\ LookupSame(objs[c].transforms, objs'[c].transforms, s.time)
                      /\ s.time = SampleOf(tf).time =>
                            SampleAt(objs'[c].transforms, s.time, 0)
                                = Found(SampleOf(tf).transform)]_vars

\* sensor was a child of world, which was registered before base and
\* holds no sample; the message that made base its parent has just stored
\* the second stamp next to the sample of the first
C13_Witness ==
    /\ call.op = "addTransformMessage"
    /\ Child(call.tf) = "sensor" /\ Parent(call.tf) = "base"
    /\ call.tf.header.stamp.nsec = 2000
    /\ Len(frames) = 3 /\ frames[2].key = "world" /\ frames[3].key = "base"
    /\ objs[frame(Tree, "world")].transforms = <<>>
    /\ objs[frame(Tree, "base")].transforms = <<>>
    /\ objs[frame(Tree, "sensor")].parent = frame(Tree, "base")
    /\ Len(objs[frame(Tree, "sensor")].transforms) = 2

----------------------------------------------------------------------------
(* Termination of the walks of apply, stated for SpecWalk *)

Walking == call.op = "walk"

WalkEnded == Walking /\ WalkEnds(objs, call.at, call.fixed, call.fuel)

\* what the finished walk hands back: the frame it stopped at if that is
\* where it was heading, Undefined if it gave up
WalkResult ==
    IF call.fixed = Undefined
    THEN IF objs[call.at].parent = Undefined THEN call.at ELSE Undefined
    ELSE IF call.at = call.fixed THEN call.at ELSE Undefined

\* C14: every apply call terminates in every state reachable by
\* addTransform: the upward walk of parent references done by root() and
\* by the path resolution is bounded and ends, even when re-parenting has
\* produced parent references that form a cycle.  A walk takes no more
\* steps than there are frames, and it ends with the frame root() returns,
\* or at the fixed frame exactly when the fixed frame is an ancestor.
C14_WalksEnd ==
    /\ Walking ~> WalkEnded
    /\ [](Walking => call.fuel \in 0..Len(objs))
    /\ [](WalkEnded =>
            IF call.fixed = Undefined
            THEN WalkResult = CoordinateFrame_root(objs, call.start)
            ELSE (WalkResult = call.fixed) <=> Reaches(objs, call.start, call.fixed))

\* the walk of root() went round a cycle of two frames and gave up
C14_Witness ==
    /\ WalkEnded
    /\ call.fixed = Undefined
    /\ call.fuel = 0
    /\ objs[call.at].parent # Undefined
    /\ objs[call.at].parent # call.at
    /\ objs[objs[call.at].parent].parent = call.at

----------------------------------------------------------------------------
(* The clone as a snapshot, stated for SpecClone *)

\* the frame ids, parents and samples seen through a tree
ViewOf(tree) ==
    [id \in {tree.frames[i].key : i \in 1..Len(tree.frames)} |->
        LET f == tree.heap[frame(tree, id)]
        IN  [parent  |-> IF f.parent = Undefined THEN UndefinedId
                         ELSE tree.heap[f.parent].id,
             samples |-> f.transforms]]

\* C15: a tree obtained by TransformTree.Clone before a later
\* addTransform on the original is a stable snapshot: frames registered,
\* re-parentings and samples added on the original after the clone was
\* taken are not visible through the clone, which keeps resolving with
\* the topology it was taken with.
C15_CloneIsSnapshot ==
    clone.made => ViewOf(TreeOf(clone.tree)) = ViewOf(snapshot)

\* the same, for re-parenting alone: a frame that had a parent when the
\* clone was taken has that parent when looked up through the clone
C15_CloneKeepsTopology ==
    clone.made =>
        \A id \in DOMAIN ViewOf(snapshot) :
            ViewOf(snapshot)[id].parent # UndefinedId =>
                ViewOf(TreeOf(clone.tree))[id].parent = ViewOf(snapshot)[id].parent

----------------------------------------------------------------------------
(* Readers and the rendered frame, stated for SpecFrames *)

Reading == call.op = "frameHandler"

\* every frame that has a parent holds a sample: what each whole
\* addTransform leaves behind
EveryChildSampled ==
    \A r \in Refs : objs[r].parent # Undefined => objs[r].transforms # <<>>

\* addTransform has set a parent and not yet stored the sample
HalfUpdated == call.op = "addTransform" /\ call.pc = "insert"

\* C16: no reader (an apply or hasFrame call issued by the render loop's
\* frameHandler) can run between the re-parent step and the sample-insert
\* step of one addTransform: a frameHandler starts only when no
\* addTransform is under way, the tree it reads is one whole addTransform
\* calls have left, and the two steps together do what the call does.
C16_ReadersSeeWholeUpdates ==
    /\ [](Reading => EveryChildSampled)
    /\ [][Reading' => ~HalfUpdated]_vars
    /\ []((call.op = "addTransform" /\ call.pc = "done") =>
            /\ Tree = call.whole.tree
            /\ coordinateFrameRenderables = call.whole.renderables)

\* a frame handler has run on a tree of three frames, built by whole
\* calls, and has placed a renderable away from the origin
C16_Witness ==
    /\ Reading
    /\ Len(frames) = 3
    /\ EveryChildSampled
    /\ \E i \in 1..Len(coordinateFrameRenderables) :
          /\ coordinateFrameRenderables[i].value.visible
          /\ coordinateFrameRenderables[i].value.position # Vec(0, 0, 0)

\* the state between the two steps, in which a child has no sample
C16_HalfUpdatedReached == HalfUpdated /\ ~EveryChildSampled

Renderable(k) == MapGet(coordinateFrameRenderables, k)

\* C18: on every rendered frame a renderable is made visible exactly
\* when apply returned a pose for it; when apply returns not found the
\* renderable is hidden and its position and orientation are left
\* unchanged, and the frame still completes for all other renderables.
C18_VisibleIffPosed ==
    [][(Reading' /\ frames # <<>>) =>
          /\ Len(coordinateFrameRenderables') = Len(coordinateFrameRenderables)
          /\ \A id \in FrameIds :
                MapHas(coordinateFrameRenderables, id) =>
                    LET fixed  == frames[1].key
                        posed  == apply(Tree, MakePose, fixed, fixed, id,
                                        call'.currentTime, call'.currentTime,
                                        call'.maxDelta).result
                        before == Renderable(id)
                        after  == Renderable(id)'
                    IN  /\ after.visible <=> posed.ok
                        /\ posed.ok =>
                              /\ after.position = posed.value.position
                              /\ after.quaternion = posed.value.orientation
                        /\ ~posed.ok =>
                              /\ after.position = before.position
                              /\ after.quaternion = before.quaternion]_vars

\* after a frame at the second stamp: the fixed frame's renderable is
\* shown, one renderable placed by an earlier frame is hidden where it
\* was, and a renderable that comes after it was handled as well
C18_Witness ==
    /\ Reading
    /\ call.currentTime = 2000 /\ call.maxDelta = 0
    /\ Len(coordinateFrameRenderables) = 3
    /\ coordinateFrameRenderables[1].value.visible
    /\ ~coordinateFrameRenderables[2].value.visible
    /\ coordinateFrameRenderables[2].value.position # Vec(0, 0, 0)
    /\ ~coordinateFrameRenderables[3].value.visible


----------------------------------------------------------------------------
(* Properties of the panel, stated for SpecPanel and SpecTopics *)

\* the host has called onRender with transforms to ingest and done has run
DoneRan == \E i \in DOMAIN host.log : host.log[i] = "done"

\* done ran after the messages of the render state were handled
DoneInOrder ==
    \A i \in DOMAIN host.log :
        host.log[i] = "done" => \E j \in 1..(i - 1) : host.log[j] = "handled"

\* C17: the done callback of every onRender is eventually invoked, and
\* is not invoked before the messages of the currentFrame of that render
\* state were handled, their transforms ingested into the renderer.
C17_DoneAfterHandled ==
    /\ host.awaiting ~> ~host.awaiting
    /\ [](host.frameTFs # {} => DoneInOrder)

\* done has run for a render state whose transforms the renderer has not
C17_DoneBeforeHandled ==
    /\ host.frameTFs # {}
    /\ DoneRan
    /\ ~(host.frameTFs \subseteq host.ingested)


\* the messages of the last render state have been handled
Handled == \E i \in DOMAIN host.log : host.log[i] = "handled"

\* the transform tree holds the child frame of tf under the parent frame
\* of tf, with the sample of tf
InTree(tf) ==
    /\ hasFrame(Tree, Child(tf))
    /\ hasFrame(Tree, Parent(tf))
    /\ CoordinateFrame_parent(objs, frame(Tree, Child(tf))) = frame(Tree, Parent(tf))
    /\ HasSample(objs, frame(Tree, Child(tf)), SampleOf(tf))

\* the frames of the tree, each with its parent's id and its samples
TreeView ==
    {[id |-> frames[i].key,
      parent |-> IF CoordinateFrame_parent(objs, frames[i].value) = Undefined THEN "none"
                 ELSE objs[CoordinateFrame_parent(objs, frames[i].value)].id,
      samples |-> SamplesOf(frames[i].value)] : i \in 1..Len(frames)}

\* what the transforms of a set put into an empty tree
ViewAfter(tfs) ==
    {[id |-> id,
      parent |-> IF \E tf \in tfs : Child(tf) = id
                 THEN Parent(CHOOSE tf \in tfs : Child(tf) = id) ELSE "none",
      samples |-> {SampleOf(tf) : tf \in {t \in tfs : Child(t) = id}}]
     : id \in {Child(tf) : tf \in tfs} \cup {Parent(tf) : tf \in tfs}}

\* the transforms that the messages the panel holds before or after a
\* step carry on a topic that has a transform datatype in the topics the
\* panel holds before or after the step
Handleable ==
    UNION {TransformsOn(m, t) : m \in {panel.messages, panel'.messages},
                                t \in {panel.topics, panel'.topics}}

\* C19: every transform delivered in a currentFrame on a topic of a
\* TF-message or TransformStamped datatype is eventually in the transform
\* tree of the renderer, each transform of a TFMessage and the one of a
\* TransformStamped, also when it was delivered before the canvas and the
\* renderer exist; the tree holds nothing else, so a message on a topic
\* whose datatype is not known is skipped.
C19_TransformsIngested ==
    /\ [](Handled => \A tf \in host.frameTFs : InTree(tf))
    /\ \A tf \in {tfA, tfB, tfC} : (tf \in host.owed) ~> InTree(tf)
    /\ [](TreeView = ViewAfter(host.ingested))
    /\ [][host.ingested' \subseteq host.ingested \cup Handleable]_vars

\* both transforms of a TFMessage delivered with the first render, when
\* the panel had no canvas and no renderer, are in the tree, and the
\* transform that came on a topic of another datatype is not
C19_Witness ==
    /\ InTree(tfA)
    /\ InTree(tfB)
    /\ host.owed = {}
    /\ panel.messages # NoValue
    /\ panel.topics # NoValue
    /\ \E i \in 1..Len(panel.messages.items) : panel.messages.items[i].topic = "/other"
    /\ \E i \in 1..Len(panel.topics.items) : panel.topics.items[i].name = "/other"
    /\ ~InTree(tfC)

\* transforms came with the call of onRender made during the first
\* render: they are owed while the panel has just got its renderer
C19_WitnessBeforeRenderer ==
    /\ host.tick = 1
    /\ panel.messages # NoValue
    /\ panel.messages.ref = 1
    /\ host.owed = {tfA, tfB}
    /\ "messages" \in pending
    /\ frames = <<>>


\* the names of the topics the panel holds that have a transform datatype
TransformTopicNames ==
    IF panel.topics = NoValue THEN {}
    ELSE {panel.topics.items[i].name :
            i \in {k \in 1..Len(panel.topics.items) :
                     panel.topics.items[k].datatype
                        \in TFMessageDatatypes \cup TransformStampedDatatypes}}

\* the subscribe effect has run for the topics the panel holds
Subscribed == panel.mounted /\ "subscribe" \notin pending

\* C20: after any sequence of topic-list updates, the list passed to
\* context.subscribe holds exactly the names of the current topics whose
\* datatype is a ROS1, ROS2 or protobuf variant of tf/tfMessage,
\* tf2_msgs/TFMessage or geometry_msgs/TransformStamped, and no other.
C20_SubscribesTransformTopics ==
    Subscribed => /\ host.subscribed # NoValue
                  /\ Range(host.subscribed.topics) = TransformTopicNames

\* two topics of transform datatypes, one a ROS2 variant, are subscribed
C20_Witness ==
    /\ Subscribed
    /\ host.subscribed = [topics |-> <<"/a", "/b">>]
    /\ panel.topics.items[1].datatype = <<"tf", "/", "tfMessage">>
    /\ panel.topics.items[2].datatype = <<"geometry_msgs", "/", "msg", "/", "TransformStamped">>

\* of two topics, the one whose datatype is no transform datatype is left out
C20_WitnessLeftOut ==
    /\ Subscribed
    /\ host.subscribed = [topics |-> <<"/b">>]
    /\ Len(panel.topics.items) = 2
    /\ panel.topics.items[1].datatype = <<"TFMessage">>
    /\ panel.topics.items[2].datatype = <<"ros", ".", "tf2_msgs", ".", "TFMessage">>


----------------------------------------------------------------------------
(* Properties of the fixed frame and of the renderables, stated for       *)
(* SpecFrames                                                             *)

\* the first frame registered, which the frame map lists first
FirstRegistered == IF frames = <<>> THEN UndefinedId ELSE frames[1].key

\* C21: the fixed frame, which is the render frame, that frameHandler
\* chooses is the first key of the frame map, the first frame ever
\* registered (the child frame of the first transform ingested), and once
\* a transform has been ingested it never changes, whichever transforms
\* and re-parentings follow.
C21_FixedFrameIsFirstFrame ==
    /\ [](call.op = "frameHandler" => call.fixedFrameId = FirstRegistered)
    /\ [][frames = <<>> /\ frames' # <<>> => frames'[1].key = Child(call'.tf)]_vars
    /\ [][frames # <<>> => frames' # <<>> /\ frames'[1].key = frames[1].key]_vars

\* a frame handler runs with three frames registered, after the first
\* frame was re-parented from the second frame to the third
C21_Witness ==
    /\ call.op = "frameHandler"
    /\ Len(frames) = 3
    /\ call.fixedFrameId = frames[1].key
    /\ CoordinateFrame_parent(objs, frames[1].value) = frames[3].value


\* the keys of a map
KeysOf(m) == {m[i].key : i \in 1..Len(m)}

\* C22: after any sequence of addTransformMessage calls, the keys of
\* coordinateFrameRenderables are the frame names registered in the
\* transform tree of the renderer, with one renderable for each name.
C22_RenderablePerFrame ==
    /\ KeysOf(coordinateFrameRenderables) = KeysOf(frames)
    /\ Cardinality(KeysOf(coordinateFrameRenderables)) = Len(coordinateFrameRenderables)
    /\ \A i \in 1..Len(coordinateFrameRenderables) :
          coordinateFrameRenderables[i].value.frameId = coordinateFrameRenderables[i].key

\* a message between two registered frames has just been ingested, with
\* three frames and three renderables
C22_Witness ==
    /\ call.op = "addTransformMessage"
    /\ Len(frames) = 3
    /\ Len(coordinateFrameRenderables) = 3
    /\ emitted = 2
    /\ frames[1].key = Child(call.tf)
    /\ frames[3].key = Parent(call.tf)


----------------------------------------------------------------------------
(* Properties of the material cache, stated for SpecMaterials *)

DisposedMaterials == {cacheLog.disposed[i].material : i \in 1..Len(cacheLog.disposed)}

CachedMaterials == {materials[i].value.material : i \in 1..Len(materials)}

\* every entry counts the acquires less the releases since it was created
CountsBalance ==
    \A i \in 1..Len(materials) :
        /\ materials[i].value.refCount >= 1
        /\ materials[i].value.refCount
             = cacheLog.acquires[materials[i].key] - cacheLog.releases[materials[i].key]

\* every material created is cached under one id or was disposed once
CreatedOncePerPeriod ==
    /\ Cardinality(KeysOf(materials)) = Len(materials)
    /\ Cardinality(CachedMaterials) = Len(materials)
    /\ Cardinality(DisposedMaterials) = Len(cacheLog.disposed)
    /\ CachedMaterials \cap DisposedMaterials = {}
    /\ CachedMaterials \cup DisposedMaterials = 1..cacheLog.creates

\* what the last call returned
LastResult ==
    /\ cacheLog.last.op = "acquire" =>
          /\ MapHas(materials, cacheLog.last.id)
          /\ cacheLog.last.result = MapGet(materials, cacheLog.last.id).material
    /\ cacheLog.last.op = "release" /\ ~cacheLog.last.cached => cacheLog.last.result = 0

\* an acquire of a cached id creates nothing and returns the cached material
AcquireStep ==
    cacheLog'.last.op = "acquire" /\ MapHas(materials, cacheLog'.last.id) =>
        /\ cacheLog'.creates = cacheLog.creates
        /\ cacheLog'.last.result = MapGet(materials, cacheLog'.last.id).material
        /\ cacheLog'.disposed = cacheLog.disposed

\* a release disposes of the material, once, with the disposer of the
\* entry, when it brings the count to 0, and then removes the entry; a
\* release of an id that is not cached returns 0 and changes nothing
ReleaseStep ==
    cacheLog'.last.op = "release" =>
        IF MapHas(materials, cacheLog'.last.id)
        THEN LET entry == MapGet(materials, cacheLog'.last.id)
             IN  /\ cacheLog'.last.result = entry.refCount - 1
                 /\ IF entry.refCount = 1
                    THEN /\ ~MapHas(materials', cacheLog'.last.id)
                         /\ cacheLog'.disposed =
                               Append(cacheLog.disposed,
                                      [disposer |-> entry.disposer,
                                       material |-> entry.material])
                    ELSE /\ MapHas(materials', cacheLog'.last.id)
                         /\ cacheLog'.disposed = cacheLog.disposed
        ELSE /\ cacheLog'.last.result = 0
             /\ materials' = materials
             /\ cacheLog'.disposed = cacheLog.disposed
             /\ cacheLog'.creates = cacheLog.creates

\* C23: after any sequence of acquire and release calls, every entry has
\* a refCount of at least 1 that is the acquires less the releases for
\* its id since it was created; create is called once for each period in
\* which the id is cached and a repeated acquire returns the same
\* material; the disposer is called once, at the release that brings the
\* count to 0, and the entry is then removed; a release of an id that is
\* not cached returns 0 and changes nothing.
C23_MaterialCacheCounts ==
    /\ [](CountsBalance /\ CreatedOncePerPeriod /\ LastResult)
    /\ [][AcquireStep /\ ReleaseStep]_vars

\* a material was released to 0 and disposed of, its id acquired again,
\* twice, with a new material, and a third material released to 0
C23_Witness ==
    /\ cacheLog.creates = 3
    /\ Len(cacheLog.disposed) = 2
    /\ \E i \in 1..Len(materials) : materials[i].value.refCount = 2
    /\ cacheLog.last.op = "release"
    /\ cacheLog.last.cached
    /\ cacheLog.last.result = 0

\* a release of an id that is not cached, while another id is cached
C23_WitnessAbsent ==
    /\ cacheLog.last.op = "release"
    /\ ~cacheLog.last.cached
    /\ Len(materials) = 1

----------------------------------------------------------------------------
(* Properties of the marker renderables, stated for SpecMarkers and        *)
(* SpecMarkerFrames.  A marker id is the string getMarkerId makes of       *)
(* topic, namespace and number.                                            *)

ValuesOf(m) == {m[i].value : i \in 1..Len(m)}

\* the map has one entry for each marker id added and not removed since,
\* the entries hold different Object3Ds that carry the id as their name
\* and the marker of the latest message
OneRenderablePerMarker ==
    /\ KeysOf(markers.renderables) = KeysOf(markerLog.latest)
    /\ \A i, j \in 1..Len(markers.renderables) :
         (markers.renderables[i].key = markers.renderables[j].key
            \/ markers.renderables[i].value = markers.renderables[j].value) => i = j
    /\ \A i \in 1..Len(markers.renderables) :
         LET renderable == markers.heap[markers.renderables[i].value]
         IN  /\ renderable.name = markers.renderables[i].key
             /\ renderable.marker = MapGet(markerLog.latest, markers.renderables[i].key)

\* the children of the Markers object are the renderables of the map,
\* each once
RenderablesAreChildren ==
    /\ ValuesOf(markers.renderables) = {markers.children[i] : i \in 1..Len(markers.children)}
    /\ Len(markers.children) = Len(markers.renderables)
    /\ \A r \in ValuesOf(markers.renderables) : markers.heap[r].parent = "Markers"

\* an add for an id that is present keeps the Object3D of the id and makes
\* no other
AddUpdatesExisting ==
    (/\ markerLog'.last.op = "addMarkerMessage"
     /\ MapHas(markers.renderables, markerLog'.last.markerId))
    => /\ MapGet(markers'.renderables, markerLog'.last.markerId)
            = MapGet(markers.renderables, markerLog'.last.markerId)
       /\ Len(markers'.heap) = Len(markers.heap)
       /\ markers'.renderables = markers.renderables
       /\ markers'.children = markers.children

\* a remove for an id that is absent changes nothing
RemoveAbsentChangesNothing ==
    (/\ markerLog'.last.op = "removeMarkerMessage"
     /\ ~MapHas(markers.renderables, markerLog'.last.markerId))
    => /\ markers' = markers
       /\ loads' = loads

\* C24: after any sequence of addMarkerMessage and removeMarkerMessage
\* calls the renderables map holds exactly one renderable for each marker
\* id added and not removed since, and that renderable is a child of the
\* Markers object; an add for an id that is present updates the existing
\* renderable instead of creating a second one, and a remove for an absent
\* id changes nothing.
C24_OneRenderablePerMarker ==
    /\ [](OneRenderablePerMarker /\ RenderablesAreChildren)
    /\ [][AddUpdatesExisting /\ RemoveAbsentChangesNothing]_vars

\* two marker ids have a renderable each, one of them the second Object3D
\* made for its id, and the last message was an add for an id whose
\* renderable was there and got another marker type
C24_Witness ==
    /\ Len(markers.renderables) = 2
    /\ Len(markers.heap) = 3
    /\ markerLog.last.op = "addMarkerMessage"
    /\ markerLog.last.found
    /\ markers.heap[MapGet(markers.renderables, markerLog.last.markerId)].marker.type
         = "TEXT_VIEW_FACING"

\* a remove for an id that has no renderable, while the other id has one
C24_WitnessAbsent ==
    /\ Len(markers.renderables) = 1
    /\ markerLog.last.op = "removeMarkerMessage"
    /\ ~markerLog.last.found

\* the source time the claim expects for a marker at a frame
ExpectedSrcTime(marker, currentTime) ==
    IF marker.frame_locked THEN currentTime ELSE rosTimeToNanoSec(marker.header.stamp)

\* C25: the source time startFrame passes to pose resolution is, for a
\* marker that is not frame_locked, the header stamp of the most recent
\* addMarkerMessage received for its id, and for a frame_locked marker the
\* current time.
C25_SrcTimeOfLatestMessage ==
    markerLog.last.op = "startFrame" =>
        \A i \in 1..Len(markerLog.last.passed) :
            markerLog.last.passed[i].srcTime
                = ExpectedSrcTime(MapGet(markerLog.latest, markerLog.last.passed[i].key),
                                  markerLog.last.currentTime)

\* what holds instead: the source time of a marker that is not
\* frame_locked is the stamp of the message that made its renderable
C25_SrcTimeOfFirstMessage ==
    markerLog.last.op = "startFrame" =>
        \A i \in 1..Len(markerLog.last.passed) :
            LET renderable == markers.heap[MapGet(markers.renderables,
                                                  markerLog.last.passed[i].key)]
            IN  markerLog.last.passed[i].srcTime
                    = IF renderable.marker.frame_locked
                      THEN markerLog.last.currentTime
                      ELSE renderable.srcTime

\* a frame has resolved the pose of a marker that is not frame_locked with
\* a source time that is not the stamp of its latest message
C25_WitnessStaleSrcTime ==
    /\ markerLog.last.op = "startFrame"
    /\ \E i \in 1..Len(markerLog.last.passed) :
         LET marker == MapGet(markerLog.latest, markerLog.last.passed[i].key)
         IN  /\ ~marker.frame_locked
             /\ markerLog.last.passed[i].srcTime # rosTimeToNanoSec(marker.header.stamp)

\* a renderable has a loaded glTF scene among its children
HasMeshScene(renderable) ==
    \E i \in 1..Len(renderable.children) : renderable.children[i].kind = "scene"

\* C26: once the latest addMarkerMessage for a marker id has a type other
\* than MESH_RESOURCE, or the marker has been removed, the marker's
\* renderable never has a loaded mesh scene among its children, whatever
\* the order in which the pending mesh loads for that marker complete or
\* fail.  The renderables are the Object3Ds made for the ids, those of
\* removed markers among them.
C26_NoSceneUnlessMesh ==
    \A r \in 1..Len(markers.heap) :
        markers.heap[r] # Collected =>
            (HasMeshScene(markers.heap[r])
                => /\ MapHas(markers.renderables, markers.heap[r].name)
                   /\ MapGet(markers.renderables, markers.heap[r].name) = r
                   /\ MapGet(markerLog.latest, markers.heap[r].name).type = "MESH_RESOURCE")

\* the renderable of a marker id whose latest message is a cube has, after
\* a mesh load resolved, the cube, its outline and the mesh scene
C26_WitnessSceneOnCube ==
    /\ markerLog.last.op = "loadResolved"
    /\ \E i \in 1..Len(markers.renderables) :
         /\ MapGet(markerLog.latest, markers.renderables[i].key).type = "CUBE"
         /\ markers.heap[markers.renderables[i].value].children
              = <<MeshChild("cube"), MeshChild("line"), SceneChild(1)>>

----------------------------------------------------------------------------
(* Properties of Input, stated for SpecInput *)

\* the step is an onClick that emits a click
EmitsClick == inputLog'.last.op = "click" /\ inputLog'.last.emitted = "click"

\* a click is emitted only for a press recorded since the previous
\* onClick, and at most MAX_DIST away from it
ClickNeedsPress ==
    EmitsClick =>
        /\ inputLog.pressed # NoValue
        /\ distanceToSquared(inputLog.pressed,
                             Vector2(inputLog'.last.event.clientX,
                                     inputLog'.last.event.clientY))
             <= MAX_DIST * MAX_DIST

\* an onClick leaves no press recorded
ClickClearsPress == inputLog.last.op = "click" => startClientPos = NoValue

\* of two onClick calls with no press between them, at most one emits
OneClickPerPress ==
    (EmitsClick /\ inputLog.last.op = "click") => inputLog.last.emitted # "click"

\* C27: Input emits a click event only when a mousedown or touchstart was
\* recorded since the previous onClick ran and the pointer moved at most
\* MAX_DIST between that press and the click; every onClick that finds a
\* recorded press clears it, so that two onClick calls with no press
\* between them emit at most one click.
C27_ClickOncePerPress ==
    /\ [][ClickNeedsPress /\ OneClickPerPress]_vars
    /\ []ClickClearsPress

\* a click was emitted one pixel away from the press, with the cursor
\* coordinates of the click
C27_Witness ==
    /\ inputLog.last.op = "click"
    /\ inputLog.last.emitted = "click"
    /\ inputLog.last.event = [clientX |-> 1, clientY |-> 2]
    /\ cursorCoords = Vector2(0, -1)
    /\ startClientPos = NoValue

\* an onClick with no press recorded, and one further than MAX_DIST from
\* the press, emit nothing
C27_WitnessNoClick ==
    /\ inputLog.last.op = "click"
    /\ inputLog.last.emitted = "none"
    /\ cursorCoords = Vector2(1, 1)

====
